---- MODULE Spec2Model ----
(***************************************************************************)
(* Batch media processing of the pose / gesture detection clients:         *)
(*   send_pose_directory.py   detect_pose_in_image, detect_pose_in_video,  *)
(*                            process_directory                            *)
(*   send_image_directory.py  detect_gesture_in_image,                     *)
(*                            process_image_directory                      *)
(* The remote endpoint is an opaque collaborator: every request may be     *)
(* answered by any element of ServerResponses.                             *)
(*                                                                         *)
(* Python values are encoded as records of one shape [t, d, s]:            *)
(*   t = "dict"  : a dict, d its items as a sequence of <<key, value>>     *)
(*                 pairs in insertion order                                *)
(*   t = "none"  : None                                                    *)
(*   t = "str"   : the string s                                            *)
(*   t = "bytes" : a non-empty byte string named s                         *)
(***************************************************************************)
EXTENDS Integers, Sequences, FiniteSets, TLC

\* ------------------------------------------------------------------ bounds
\* largest number of entries of the input directory
MaxDirFiles == 2
\* largest number of per-file results of a statistics replay
MaxRecorded == 3
\* largest count of a category in a tally handed to the report functions
MaxCount == 3

\* ------------------------------------------------------------ python values
PyDict(d) == [t |-> "dict", d |-> d, s |-> ""]
PyNone == [t |-> "none", d |-> <<>>, s |-> ""]
PyStr(s) == [t |-> "str", d |-> <<>>, s |-> s]
PyBytes(s) == [t |-> "bytes", d |-> <<>>, s |-> s]

\* `key in d`
HasKey(d, k) == \E n \in 1..Len(d) : d[n][1] = k

\* d.get(key, default)
Get(d, k, default) ==
  IF HasKey(d, k) THEN d[CHOOSE n \in 1..Len(d) : d[n][1] = k][2] ELSE default

\* d[key] = value : replaces in place, a new key goes last
SetKey(d, k, v) ==
  IF HasKey(d, k)
  THEN [n \in 1..Len(d) |-> IF d[n][1] = k THEN <<k, v>> ELSE d[n]]
  ELSE Append(d, <<k, v>>)

\* bool(value)
Truthy(v) ==
  CASE v.t = "dict" -> Len(v.d) > 0
    [] v.t = "none" -> FALSE
    [] v.t = "str" -> v.s # ""
    [] OTHER -> TRUE

\* ------------------------------------------------------- remote endpoint
\* JSON bodies the endpoint sends
OkWave == << <<"count", 1>>, <<"detected_actions", << <<"wave", 1>> >> >> >>
OkSitWave ==
  << <<"count", 2>>, <<"detected_actions", << <<"sit", 1>>, <<"wave", 1>> >> >> >>
ErrDetail == << <<"detail", "bad input">> >>
ErrNoDetail == << <<"error", "boom">>, <<"code", "E42">> >>

\* status: "conn" no response at all (connection failure), "ok" a 2xx
\* response, "err" a 4xx/5xx response; body: a dict is a JSON document,
\* bytes is a body that is not JSON
Response(status, ctype, body) == [status |-> status, ctype |-> ctype, body |-> body]

ConnFail == Response("conn", "", PyNone)
JsonOkWave == Response("ok", "application/json", PyDict(OkWave))
JsonOkSitWave == Response("ok", "application/json", PyDict(OkSitWave))
HttpErrDetail == Response("err", "application/json", PyDict(ErrDetail))
HttpErrNoDetail == Response("err", "application/json", PyDict(ErrNoDetail))
HttpErrHtml == Response("err", "text/html", PyBytes("html"))
JsonCharset ==
  Response("ok", "application/json; charset=utf-8", PyDict(ErrDetail))
ImageOk == Response("ok", "image/jpeg", PyBytes("media"))
VideoOk == Response("ok", "video/mp4", PyBytes("media"))

\* the answers of the endpoint that takes the upload field `field`
ServerResponses(field) ==
  { ConnFail, JsonOkWave, JsonOkSitWave, HttpErrDetail, HttpErrNoDetail,
    HttpErrHtml, JsonCharset, IF field = "image" THEN ImageOk ELSE VideoOk }

\* response.content
Content(r) == IF r.body.t = "bytes" THEN r.body ELSE PyBytes("json text")

\* requests.post(...) followed by raise_for_status() (when checked) and
\* .json() (when parsed): the exception raised, "" when none
RequestFailure(r, checked, parsed) ==
  IF r.status = "conn" THEN "ConnectionError"
  ELSE IF checked /\ r.status = "err" THEN "HTTPError"
  ELSE IF parsed /\ r.body.t # "dict" THEN "JSONDecodeError"
  ELSE ""

\* ------------------------------------------------------------ detect calls
\* What a detect call did: exc the exception it raised ("" when it returned),
\* pair whether it returned a 2-tuple, json / media the returned value(s),
\* reqs the requests sent in order (return_flag: the request carries
\* return_image / return_video), leaked the upload handles opened and never
\* closed by the call, warned whether the JSON-instead-of-media warning was
\* printed.
Request(field, flag) == [field |-> field, return_flag |-> flag]

Outcome(exc, pair, json, media, reqs, leaked, warned) ==
  [exc |-> exc, pair |-> pair, json |-> json, media |-> media, reqs |-> reqs,
   leaked |-> leaked, warned |-> warned]

Raised(exc, reqs, leaked) == Outcome(exc, FALSE, PyNone, PyNone, reqs, leaked, FALSE)
Single(json, reqs, leaked) == Outcome("", FALSE, json, PyNone, reqs, leaked, FALSE)
Pair(json, media, reqs, leaked, warned) ==
  Outcome("", TRUE, json, media, reqs, leaked, warned)

\* the `except requests.exceptions.RequestException` handler of the pose
\* clients: the server's JSON error body when there is one, else the
\* exception text
ErrorResult(exc, r) ==
  IF exc = "HTTPError" /\ r.body.t = "dict"
  THEN r.body
  ELSE PyDict(<< <<"detail", exc>> >>)

\* mutant of detect_pose_in_image: the first request already carries
\* return_image
detect_pose_in_image_FlagFirst(exists, return_image, r1, r2) ==
  LET req1 == Request("image", return_image)
      req2 == Request("image", TRUE)
      exc1 == RequestFailure(r1, TRUE, TRUE)
      exc2 == RequestFailure(r2, TRUE, FALSE)
  IN IF ~exists THEN Raised("FileNotFoundError", <<>>, 0)
     ELSE IF exc1 # "" THEN Single(ErrorResult(exc1, r1), <<req1>>, 0)
     ELSE IF ~return_image THEN Single(r1.body, <<req1>>, 0)
     ELSE IF exc2 # "" THEN Pair(r1.body, PyNone, <<req1, req2>>, 0, FALSE)
     ELSE IF r2.ctype = "application/json"
       THEN Pair(r1.body, PyNone, <<req1, req2>>, 0, TRUE)
     ELSE Pair(r1.body, Content(r2), <<req1, req2>>, 0, FALSE)

detect_pose_in_image(exists, return_image, r1, r2) ==
  LET req1 == Request("image", FALSE)
      req2 == Request("image", TRUE)
      exc1 == RequestFailure(r1, TRUE, TRUE)
      exc2 == RequestFailure(r2, TRUE, FALSE)
  IN IF ~exists THEN Raised("FileNotFoundError", <<>>, 0)
     ELSE IF exc1 # "" THEN Single(ErrorResult(exc1, r1), <<req1>>, 0)
     ELSE IF ~return_image THEN Single(r1.body, <<req1>>, 0)
     ELSE IF exc2 # "" THEN Pair(r1.body, PyNone, <<req1, req2>>, 0, FALSE)
     ELSE IF r2.ctype = "application/json"
       THEN Pair(r1.body, PyNone, <<req1, req2>>, 0, TRUE)
     ELSE Pair(r1.body, Content(r2), <<req1, req2>>, 0, FALSE)

detect_pose_in_video(exists, return_video, r1, r2) ==
  LET req1 == Request("video", return_video)
      req2 == Request("video", FALSE)
      exc1 == RequestFailure(r1, TRUE, FALSE)
      excJ == RequestFailure(r1, TRUE, TRUE)
      exc2 == RequestFailure(r2, TRUE, TRUE)
  IN IF ~exists THEN Raised("FileNotFoundError", <<>>, 0)
     ELSE IF exc1 # "" THEN Single(ErrorResult(exc1, r1), <<req1>>, 0)
     ELSE IF r1.ctype = "video/mp4"
       THEN IF exc2 # ""
            THEN Single(ErrorResult(exc2, r2), <<req1, req2>>, 0)
            ELSE Pair(r2.body, Content(r1), <<req1, req2>>, 0, FALSE)
     ELSE IF excJ # "" THEN Single(ErrorResult(excJ, r1), <<req1>>, 0)
     ELSE Single(r1.body, <<req1>>, 0)

detect_gesture_in_image(exists, return_image, r1, r2) ==
  LET req1 == Request("image", FALSE)
      req2 == Request("image", TRUE)
      exc1 == RequestFailure(r1, FALSE, TRUE)
      exc2 == RequestFailure(r2, FALSE, FALSE)
      \* the first handle is closed only `if not return_image`
      leak == IF return_image THEN 1 ELSE 0
  IN IF ~exists THEN Raised("FileNotFoundError", <<>>, 0)
     ELSE IF exc1 # "" THEN Single(PyNone, <<req1>>, leak)
     ELSE IF ~return_image THEN Single(r1.body, <<req1>>, 0)
     ELSE IF exc2 # "" THEN Pair(r1.body, PyNone, <<req1, req2>>, leak, FALSE)
     ELSE IF r2.ctype = "application/json"
       THEN Pair(r1.body, PyNone, <<req1, req2>>, leak, TRUE)
     ELSE Pair(r1.body, Content(r2), <<req1, req2>>, leak, FALSE)

\* -------------------------------------------------------------- directory
\* the file names a directory may hold, in ascending order of the paths
\* (the order of sorted() on Path objects of one directory)
FileOrder == <<"a.jpg", "a.mp4", "a.png", "b.JPG", "c.Jpg", "n.txt">>
FileUniverse == {FileOrder[n] : n \in 1..Len(FileOrder)}
Rank(f) == CHOOSE n \in 1..Len(FileOrder) : FileOrder[n] = f

\* Path(f).stem and Path(f).suffix
Stem(f) ==
  CASE f \in {"a.jpg", "a.mp4", "a.png"} -> "a"
    [] f = "b.JPG" -> "b"
    [] f = "c.Jpg" -> "c"
    [] OTHER -> "n"
Suffix(f) ==
  CASE f = "a.jpg" -> ".jpg"
    [] f = "a.mp4" -> ".mp4"
    [] f = "a.png" -> ".png"
    [] f = "b.JPG" -> ".JPG"
    [] f = "c.Jpg" -> ".Jpg"
    [] OTHER -> ".txt"
Stems == {Stem(f) : f \in FileUniverse}

\* ext.upper()
Upper(ext) ==
  CASE ext \in {".jpg", ".JPG"} -> ".JPG"
    [] ext = ".jpeg" -> ".JPEG"
    [] ext = ".png" -> ".PNG"
    [] ext = ".mp4" -> ".MP4"
    [] ext = ".avi" -> ".AVI"
    [] ext = ".mov" -> ".MOV"
    [] ext = ".wmv" -> ".WMV"
    [] OTHER -> ".MKV"

DefaultImageExtensions == <<".jpg", ".jpeg", ".png">>
DefaultVideoExtensions == <<".mp4", ".avi", ".mov", ".wmv", ".mkv">>
ImageExtensionChoices == {DefaultImageExtensions, <<".JPG">>}
VideoExtensionChoices == {DefaultVideoExtensions}

\* delay in tenths of a second: the default 0.5, and none
DefaultDelay == 5
Delays == {0, DefaultDelay}
\* the time the endpoint takes over a request, in tenths of a second: less
\* than half a tenth, or 0.3 s
FastServer == 0
SlowServer == 3
Latencies == {FastServer, SlowServer}
\* output_dir: the default None (results go to the input directory), written
\* "", or a directory
DefaultOutputDir == ""
OutputDirChoices == {DefaultOutputDir, "out"}

\* directory.glob("*" + ext): the entries whose name ends in ext, matched
\* with case (POSIX)
RECURSIVE GlobFrom(_, _, _)
GlobFrom(files, ext, n) ==
  IF n > Len(FileOrder) THEN <<>>
  ELSE (IF FileOrder[n] \in files /\ Suffix(FileOrder[n]) = ext
        THEN <<FileOrder[n]>> ELSE <<>>) \o GlobFrom(files, ext, n + 1)
Glob(files, ext) == GlobFrom(files, ext, 1)

\* for ext in extensions: extend(glob(*ext)); extend(glob(*ext.upper()))
RECURSIVE FindFiles(_, _)
FindFiles(files, exts) ==
  IF exts = <<>> THEN <<>>
  ELSE Glob(files, Head(exts)) \o Glob(files, Upper(Head(exts)))
       \o FindFiles(files, Tail(exts))

\* mutant of Insert: the path goes first, whatever its rank
RECURSIVE Insert_Front(_, _)
Insert_Front(sorted, f) == <<f>> \o sorted

\* sorted(paths)
RECURSIVE Insert(_, _)
Insert(sorted, f) ==
  IF sorted = <<>> THEN <<f>>
  ELSE IF Rank(f) < Rank(Head(sorted)) THEN <<f>> \o sorted
  ELSE <<Head(sorted)>> \o Insert(Tail(sorted), f)

RECURSIVE Sorted(_)
Sorted(paths) ==
  IF paths = <<>> THEN <<>> ELSE Insert(Sorted(Tail(paths)), Head(paths))

\* ------------------------------------------------------------- statistics
NewStats(nImages, nVideos) ==
  [total_files |-> nImages + nVideos,
   images_processed |-> nImages,
   videos_processed |-> nVideos,
   total_poses_detected |-> 0,
   actions |-> <<>>,
   processing_time |-> 0,
   errors |-> <<>>]

ErrorEntry(path, message) == [file |-> path, error |-> message]

\* mutant of TallyActions: the count replaces the tally
RECURSIVE TallyActions_Replace(_, _)
TallyActions_Replace(actions, detected) ==
  IF detected = <<>> THEN actions
  ELSE TallyActions_Replace(SetKey(actions, Head(detected)[1], Head(detected)[2]),
                            Tail(detected))

\* for action, count in detected_actions.items(): actions[action] += count
RECURSIVE TallyActions(_, _)
TallyActions(actions, detected) ==
  IF detected = <<>> THEN actions
  ELSE LET a == Head(detected)[1]
           c == Head(detected)[2]
           created == IF HasKey(actions, a) THEN actions ELSE SetKey(actions, a, 0)
       IN TallyActions(SetKey(created, a, Get(created, a, 0) + c), Tail(detected))

\* mutant of UpdateStatistics: a failure record is also counted
UpdateStatistics_CountFailures(st, path, result) ==
  IF result.t # "dict" THEN st
  ELSE [st EXCEPT
          !.errors = IF HasKey(result.d, "detail")
                     THEN Append(@, ErrorEntry(path, Get(result.d, "detail", "")))
                     ELSE @,
          !.total_poses_detected = @ + Get(result.d, "count", 0),
          !.actions = IF HasKey(result.d, "detected_actions")
                         /\ Get(result.d, "detected_actions", <<>>) # <<>>
                      THEN TallyActions(@, Get(result.d, "detected_actions", <<>>))
                      ELSE @]

\* the "Update statistics" block of a loop body
UpdateStatistics(st, path, result) ==
  IF result.t # "dict" THEN st
  ELSE IF HasKey(result.d, "detail")
    THEN [st EXCEPT !.errors = Append(@, ErrorEntry(path, Get(result.d, "detail", "")))]
  ELSE [st EXCEPT
          !.total_poses_detected = @ + Get(result.d, "count", 0),
          !.actions = IF HasKey(result.d, "detected_actions")
                         /\ Get(result.d, "detected_actions", <<>>) # <<>>
                      THEN TallyActions(@, Get(result.d, "detected_actions", <<>>))
                      ELSE @]

\* ------------------------------------------------------- one loop iteration
\* `result, media = detect(...)`: a 2-tuple unpacks, a dict is iterated over
\* its keys, None cannot be unpacked
Unpack(out) ==
  IF out.pair THEN [exc |-> "", result |-> out.json, media |-> out.media]
  ELSE IF out.json.t = "dict" /\ Len(out.json.d) = 2
    THEN [exc |-> "", result |-> PyStr(out.json.d[1][1]),
          media |-> PyStr(out.json.d[2][1])]
  ELSE IF out.json.t = "dict"
    THEN [exc |-> "ValueError", result |-> PyNone, media |-> PyNone]
  ELSE [exc |-> "TypeError", result |-> PyNone, media |-> PyNone]

\* The statements of a loop body from the detect call to `results[path] =
\* result`: exc the exception that ended them ("" when none), media what was
\* written to the processed-media file ("absent" when it was not opened, ""
\* when it was created and the write failed), artifact whether the per-file
\* JSON was written, result the value written and recorded, truncated
\* whether the per-file JSON was opened and json.dump failed in the middle
\* (a returned 2-tuple bound to `result`: its bytes cannot be serialized).
Body(out, requested) ==
  LET u == IF requested THEN Unpack(out)
           ELSE [exc |-> "", result |-> out.json, media |-> PyNone]
      done(exc, media, artifact, result, truncated) ==
        [exc |-> exc, media |-> media, artifact |-> artifact, result |-> result,
         truncated |-> truncated]
  IN IF out.exc # "" THEN done(out.exc, "absent", FALSE, PyNone, FALSE)
     ELSE IF u.exc # "" THEN done(u.exc, "absent", FALSE, PyNone, FALSE)
     ELSE IF Truthy(u.media) /\ u.media.t # "bytes"
       THEN done("TypeError", "", FALSE, PyNone, FALSE)
     ELSE IF ~requested /\ out.pair
       THEN done("TypeError", "absent", FALSE, PyNone, TRUE)
     ELSE done("", IF Truthy(u.media) THEN u.media.s ELSE "absent", TRUE,
               u.result, FALSE)

\* A target of a write: <<"result", stem>> is <stem>_(pose_)result.json,
\* <<"media", file>> is <stem>_processed<suffix> of that file.
ResultTarget(path) == <<"result", Stem(path)>>
MediaTarget(path) == <<"media", path>>
\* the summary of the run, (pose_)detection_summary.json
SummaryTarget == <<"summary", "">>

\* The loop body for the file at path when the targets in bad cannot be
\* opened for writing: `open(output_image, 'wb')` (lines 292, 363; 144) or
\* `open(output_json, 'w')` (lines 307, 378; 153) raises OSError and the
\* statements after it are not executed.
WriteBody(bad, path, out, requested) ==
  LET b == Body(out, requested)
      failed(media) ==
        [exc |-> "OSError", media |-> media, artifact |-> FALSE,
         result |-> PyNone, truncated |-> FALSE]
  IN IF b.media # "absent" /\ MediaTarget(path) \in bad THEN failed("absent")
     ELSE IF (b.artifact \/ b.truncated) /\ ResultTarget(path) \in bad
       THEN failed(b.media)
     ELSE b

\* ------------------------------------------------------- report and chart
\* A text is a sequence of lines; a line is what it shows: kind says which
\* line of the format it is, name and value what it was formatted from.
Line(kind, name, value) == [kind |-> kind, name |-> name, value |-> value]

\* mutant of InsertByCount: the item goes before the items of equal count
RECURSIVE InsertByCount_BeforeEqual(_, _)
InsertByCount_BeforeEqual(sorted, item) ==
  IF sorted = <<>> THEN <<item>>
  ELSE IF item[2] >= Head(sorted)[2] THEN <<item>> \o sorted
  ELSE <<Head(sorted)>> \o InsertByCount_BeforeEqual(Tail(sorted), item)

\* an item put into items sorted by count descending, after the items of
\* equal count
RECURSIVE InsertByCount(_, _)
InsertByCount(sorted, item) ==
  IF sorted = <<>> THEN <<item>>
  ELSE IF item[2] > Head(sorted)[2] THEN <<item>> \o sorted
  ELSE <<Head(sorted)>> \o InsertByCount(Tail(sorted), item)

\* sorted(actions.items(), key=lambda x: x[1], reverse=True): a stable sort,
\* the items of equal count stay in the order of the dict
RECURSIVE SortByCountDesc(_)
SortByCountDesc(items) ==
  IF items = <<>> THEN <<>>
  ELSE InsertByCount(SortByCountDesc(SubSeq(items, 1, Len(items) - 1)),
                     items[Len(items)])

NoValidSummary == <<Line("No valid summary data found.", "", 0)>>
NoActionsDetected == <<Line("No actions detected in the processed files.", "", 0)>>

\* report lines 77-85 of generate_action_report: the totals header and the
\* breakdown
ReportText(stats, actions) ==
  << Line("=== Pose Detection Action Report ===", "", 0),
     Line("Total files processed", "", Get(stats, "total_files", 0)),
     Line("Total poses detected", "", Get(stats, "total_poses_detected", 0)),
     Line("Processing time", "", Get(stats, "processing_time", 0)),
     Line("Action Summary:", "", 0),
     Line("----------------------------------------", "", 0) >>
  \o [n \in 1..Len(actions) |->
        Line("action", SortByCountDesc(actions)[n][1], SortByCountDesc(actions)[n][2])]

\* mutant of generate_action_report: no early return on an empty tally
generate_action_report_AlwaysHeader(summary_dict) ==
  IF summary_dict = <<>> \/ ~HasKey(summary_dict, "statistics")
  THEN NoValidSummary
  ELSE LET stats == Get(summary_dict, "statistics", <<>>)
       IN ReportText(stats, Get(stats, "actions", <<>>))

\* generate_action_report(summary_data): the text it returns
generate_action_report(summary_dict) ==
  IF summary_dict = <<>> \/ ~HasKey(summary_dict, "statistics")
  THEN NoValidSummary
  ELSE LET stats == Get(summary_dict, "statistics", <<>>)
           actions == Get(stats, "actions", <<>>)
       IN IF actions = <<>> THEN NoActionsDetected
          ELSE ReportText(stats, actions)

\* max(count for _, count in actions)
RECURSIVE MaxCountOf(_)
MaxCountOf(actions) ==
  IF Len(actions) = 1 THEN actions[1][2]
  ELSE LET m == MaxCountOf(Tail(actions))
       IN IF actions[1][2] >= m THEN actions[1][2] ELSE m

\* mutant of BarLength: the bar is scaled to the 50 columns of the rule
BarLength_Fifty(count, max_count) ==
  IF max_count > 0 THEN (count * 50) \div max_count ELSE 0

\* int((count / max_count) * 40) if max_count > 0 else 0
BarLength(count, max_count) ==
  IF max_count > 0 THEN (count * 40) \div max_count ELSE 0

\* mutant of create_action_chart: no chart when the largest count is 0
create_action_chart_SkipZeroMax(stats) ==
  LET actions == Get(stats, "actions", <<>>)
  IN IF actions = <<>> \/ MaxCountOf(actions) = 0
     THEN [called |-> TRUE, written |-> FALSE, lines |-> <<>>]
     ELSE [called |-> TRUE, written |-> TRUE,
           lines |-> [n \in 1..Len(actions) |->
                        [action |-> SortByCountDesc(actions)[n][1],
                         count |-> SortByCountDesc(actions)[n][2],
                         bar |-> BarLength(SortByCountDesc(actions)[n][2],
                                           MaxCountOf(actions))]]]

\* create_action_chart(stats, output_dir): written whether
\* action_summary.txt is written, lines its lines after the two header lines
create_action_chart(stats) ==
  LET actions == Get(stats, "actions", <<>>)
  IN IF actions = <<>>
     THEN [called |-> TRUE, written |-> FALSE, lines |-> <<>>]
     ELSE [called |-> TRUE, written |-> TRUE,
           lines |-> [n \in 1..Len(actions) |->
                        [action |-> SortByCountDesc(actions)[n][1],
                         count |-> SortByCountDesc(actions)[n][2],
                         bar |-> BarLength(SortByCountDesc(actions)[n][2],
                                           MaxCountOf(actions))]]]

NoReport == [returned |-> FALSE, lines |-> <<>>]
NoChart == [called |-> FALSE, written |-> FALSE, lines |-> <<>>]

\* ------------------------------------------------- summary from the files
\* load_json_result(file_path): the parsed document, {} when the file cannot
\* be parsed (content is what was written: bytes stands for a text that is
\* not JSON)
load_json_result(content) ==
  IF content.t = "bytes" THEN PyDict(<<>>) ELSE content

\* the summary dict of summarize_file_results; exc the exception that ended
\* the call, "" when it returned
CustomSummary(done, total_files) ==
  [done |-> done, total_files |-> total_files, total_poses |-> 0,
   actions |-> <<>>, files_with_poses |-> 0, files_with_errors |-> 0,
   exc |-> ""]
NoCustomSummary == CustomSummary(FALSE, 0)

\* `sub in s` for two str: sub occurs in s as a substring
Contains(s, sub) ==
  \E k \in 1..(Len(s) - Len(sub) + 1) : SubSeq(s, k, k + Len(sub) - 1) = sub

\* the body of the loop of summarize_file_results for the document data
\* (lines 132-150): `"detail" in data` raises on None and is a substring
\* test on a str, whose .get then raises
SummarizeFile(acc, data) ==
  IF data.t = "none" THEN [acc EXCEPT !.exc = "TypeError"]
  ELSE IF data.t = "str"
    THEN IF Contains(data.s, "detail")
         THEN [acc EXCEPT !.files_with_errors = @ + 1]
         ELSE [acc EXCEPT !.exc = "AttributeError"]
  ELSE IF HasKey(data.d, "detail")
    THEN [acc EXCEPT !.files_with_errors = @ + 1]
  ELSE [acc EXCEPT
          !.total_poses = @ + Get(data.d, "count", 0),
          !.files_with_poses = IF Get(data.d, "count", 0) > 0 THEN @ + 1 ELSE @,
          !.actions = TallyActions(@, Get(data.d, "detected_actions", <<>>))]

RECURSIVE SummarizeFrom(_, _)
SummarizeFrom(acc, contents) ==
  IF contents = <<>> \/ acc.exc # "" THEN acc
  ELSE SummarizeFrom(SummarizeFile(acc, load_json_result(Head(contents))),
                     Tail(contents))

\* summarize_file_results(result_files), the files given by their contents
summarize_file_results(contents) ==
  SummarizeFrom(CustomSummary(TRUE, Len(contents)), contents)

\* ------------------------------------------------------------------- json
\* A value handed to json.dump, with its Python type: k is "int", "str",
\* "null", "list" or "dict"; the items of a dict are <<key, value>> pairs in
\* insertion order, its keys are strings.
JValue(k, n, s, items) == [k |-> k, n |-> n, s |-> s, items |-> items]
JInt(n) == JValue("int", n, "", <<>>)
JStr(s) == JValue("str", 0, s, <<>>)
JNull == JValue("null", 0, "", <<>>)
JList(items) == JValue("list", 0, "", items)
JDict(items) == JValue("dict", 0, "", items)

\* a JSON text is a sequence of tokens
Tok(tok, n, s) == [tok |-> tok, n |-> n, s |-> s]
Punct(c) == Tok(c, 0, "")

RECURSIVE Concat(_)
Concat(seqs) == IF seqs = <<>> THEN <<>> ELSE Head(seqs) \o Concat(Tail(seqs))

\* mutant of MemberOrder: the members are written last key first
MemberOrder_Reversed(items) ==
  [n \in 1..Len(items) |-> items[Len(items) + 1 - n]]

\* the order in which json.dump writes the members of a dict: the order of
\* the dict (sort_keys is not set)
MemberOrder(items) == items

\* json.dump(value, f, indent=2): the text written
RECURSIVE json_dump(_)
json_dump(v) ==
  LET sep(n, len) == IF n < len THEN <<Punct(",")>> ELSE <<>>
  IN CASE v.k = "int" -> <<Tok("num", v.n, "")>>
       [] v.k = "str" -> <<Tok("str", 0, v.s)>>
       [] v.k = "null" -> <<Punct("null")>>
       [] v.k = "list" ->
            <<Punct("[")>>
            \o Concat([n \in 1..Len(v.items) |->
                         json_dump(v.items[n]) \o sep(n, Len(v.items))])
            \o <<Punct("]")>>
       [] OTHER ->
            LET m == MemberOrder(v.items)
            IN <<Punct("{")>>
               \o Concat([n \in 1..Len(m) |->
                            <<Tok("str", 0, m[n][1]), Punct(":")>>
                            \o json_dump(m[n][2]) \o sep(n, Len(m))])
               \o <<Punct("}")>>

\* json.load(f): the parser, from the token at position p: v the value read,
\* next the position after it.  An object becomes a dict: a key read again
\* keeps its place and takes the later value.
RECURSIVE ParseValue(_, _)
RECURSIVE ParseElements(_, _, _)
RECURSIVE ParseMembers(_, _, _)
ParseValue(text, p) ==
  CASE text[p].tok = "num" -> [v |-> JInt(text[p].n), next |-> p + 1]
    [] text[p].tok = "str" -> [v |-> JStr(text[p].s), next |-> p + 1]
    [] text[p].tok = "null" -> [v |-> JNull, next |-> p + 1]
    [] text[p].tok = "[" ->
         IF text[p + 1].tok = "]" THEN [v |-> JList(<<>>), next |-> p + 2]
         ELSE ParseElements(text, p + 1, <<>>)
    [] OTHER ->
         IF text[p + 1].tok = "}" THEN [v |-> JDict(<<>>), next |-> p + 2]
         ELSE ParseMembers(text, p + 1, <<>>)

ParseElements(text, p, acc) ==
  LET e == ParseValue(text, p)
  IN IF text[e.next].tok = ","
     THEN ParseElements(text, e.next + 1, Append(acc, e.v))
     ELSE [v |-> JList(Append(acc, e.v)), next |-> e.next + 1]

ParseMembers(text, p, acc) ==
  LET e == ParseValue(text, p + 2)
      items == SetKey(acc, text[p].s, e.v)
  IN IF text[e.next].tok = ","
     THEN ParseMembers(text, e.next + 1, items)
     ELSE [v |-> JDict(items), next |-> e.next + 1]

json_load(text) == ParseValue(text, 1).v

\* the loaded value as the model writes Python values elsewhere: a dict is
\* the sequence of its items, a list the sequence of its elements, None is
\* "null"
RECURSIVE Plain(_)
Plain(v) ==
  CASE v.k = "int" -> v.n
    [] v.k = "str" -> v.s
    [] v.k = "null" -> "null"
    [] v.k = "list" -> [n \in 1..Len(v.items) |-> Plain(v.items[n])]
    [] OTHER -> [n \in 1..Len(v.items) |-> <<v.items[n][1], Plain(v.items[n][2])>>]

\* the objects process_directory hands to json.dump (lines 259-267, 421-431)
TallyValue(actions) ==
  JDict([n \in 1..Len(actions) |-> <<actions[n][1], JInt(actions[n][2])>>])

StatsValue(st) ==
  JDict(<< <<"total_files", JInt(st.total_files)>>,
           <<"images_processed", JInt(st.images_processed)>>,
           <<"videos_processed", JInt(st.videos_processed)>>,
           <<"total_poses_detected", JInt(st.total_poses_detected)>>,
           <<"actions", TallyValue(st.actions)>>,
           <<"processing_time", JInt(st.processing_time)>>,
           <<"errors",
             JList([n \in 1..Len(st.errors) |->
                      JDict(<< <<"file", JStr(st.errors[n].file)>>,
                               <<"error", JStr(st.errors[n].error)>> >>)])>> >>)

NullOr(s) == IF s = "null" THEN JNull ELSE JStr(s)

IndexValue(entry) ==
  JDict(<< <<"poses", JInt(entry.poses)>>,
           <<"actions", TallyValue(entry.actions)>>,
           <<"results_file", NullOr(entry.results_file)>>,
           <<"media_path", NullOr(entry.media_path)>> >>)

SummaryValue(s) ==
  JDict(<< <<"statistics", StatsValue(s.statistics)>>,
           <<"results_by_file",
             JDict([n \in 1..Len(s.index) |->
                      <<s.index[n][1], IndexValue(s.index[n][2])>>])>> >>)

\* ------------------------------------------------------------------ state
VARIABLES
  workflow,          \* "pose": process_directory, "gesture": process_image_directory
  return_media,      \* return_media / return_images
  mode,              \* 'image', 'video' or 'both'
  image_extensions,
  video_extensions,
  delay,             \* delay between requests, in tenths of a second
  latency,           \* the time a request takes, in tenths of a second
  output_dir,        \* the output_dir argument: "" (None) or a directory name
  dir_exists,        \* directory_path names an existing directory
  dir_files,         \* the entries of that directory
  unwritable,        \* on disk: the per-file targets that cannot be opened for writing
  pc,                \* "call", "images", "videos", "summary", "returned", "raised"
  i,                 \* index of the next file of the running loop
  image_files,       \* sorted(image_files)
  video_files,       \* sorted(video_files)
  stats,
  results,           \* results dict: <<path, result>> pairs in insertion order
  result_files,      \* on disk: stem -> the <stem>_(pose_)result.json artifact
  media_files,       \* on disk: file name -> <stem>_processed<suffix>
  made_dirs,         \* on disk: the directories the call made or found
  prior,             \* on disk before the call: the summary artifact
  summary,           \* on disk: the summary artifact
  log,               \* what the run has done so far, in order
  open_handles,      \* upload handles opened and not closed
  call,              \* the last detect call: its arguments, answers and outcome
  raised,            \* the exception that left the workflow, "" when none
  queue,             \* offline: the per-file results still to be recorded
  summary_data,      \* offline: the summary handed to the report functions
  report,            \* offline: the text generate_action_report returned
  chart,             \* offline: action_summary.txt, its lines
  custom_summary,    \* offline: what summarize_file_results returned
  twin               \* the same call with the same answers and another delay

vars ==
  <<workflow, return_media, mode, image_extensions, video_extensions, delay, latency,
    output_dir, dir_exists, dir_files, unwritable, prior, pc, i, image_files, video_files,
    stats, results, result_files, media_files, made_dirs, summary, log,
    open_handles, call, raised, queue, summary_data, report, chart,
    custom_summary, twin>>

\* the arguments of the call and what it finds on disk
config == <<workflow, return_media, mode, image_extensions, video_extensions,
            delay, latency, output_dir, dir_exists, dir_files, unwritable, prior>>

\* the variables of the offline steps (statistics replay, report, chart)
\* and of the side-by-side run
offline == <<queue, summary_data, report, chart, custom_summary, twin>>

\* entries of the log
Event(ev, file, flag, value) ==
  [ev |-> ev, file |-> file, flag |-> flag, value |-> value]

\* a detect call: fn the function, file and requested its arguments, resps
\* the answers to the requests it sent, out what it did, media_written and
\* artifact_written what its caller then wrote for the file
Call(fn, file, requested, resps, out, b) ==
  [fn |-> fn, file |-> file, requested |-> requested, resps |-> resps,
   out |-> out, media_written |-> b.media # "absent",
   artifact_written |-> b.artifact]
NoCall ==
  [fn |-> "", file |-> "", requested |-> FALSE, resps |-> <<>>,
   out |-> Raised("", <<>>, 0), media_written |-> FALSE,
   artifact_written |-> FALSE]

\* no side-by-side run
NoTwin ==
  [delay |-> 0, at |-> <<"none", 0>>, log |-> <<>>, stats |-> <<>>,
   results |-> <<>>, result_files |-> <<>>, media_files |-> <<>>,
   summary |-> <<>>]

\* the offline steps have not run
NoOffline ==
  /\ queue = [all |-> <<>>, images |-> 0, left |-> {}, last |-> 0]
  /\ summary_data = PyNone
  /\ report = NoReport
  /\ chart = NoChart
  /\ custom_summary = NoCustomSummary

NoArtifact == [content |-> PyNone, writer |-> ""]
NoSummary == [origin |-> "none", statistics |-> NewStats(0, 0), index |-> <<>>]
\* a summary left at the same path by an earlier run
PriorSummary ==
  [origin |-> "earlier run",
   statistics |-> [NewStats(1, 0) EXCEPT !.total_poses_detected = 9,
                                         !.actions = << <<"jump", 9>> >>],
   index |-> << <<"old.jpg", [poses |-> 9, actions |-> << <<"jump", 9>> >>,
                              results_file |-> "null", media_path |-> "null",
                              processed |-> "null"]>> >>]

\* a call of a batch workflow, its arguments drawn from the given sets
InitBatch(delays, latencies, output_dirs, extension_choices, priors) ==
  /\ workflow \in {"pose", "gesture"}
  /\ return_media \in BOOLEAN
  /\ mode \in (IF workflow = "pose" THEN {"image", "video", "both"} ELSE {"image"})
  /\ image_extensions \in extension_choices
  /\ video_extensions \in VideoExtensionChoices
  /\ delay \in delays
  /\ latency \in latencies
  /\ output_dir \in output_dirs
  /\ dir_exists \in BOOLEAN
  /\ dir_files \in (IF dir_exists
                    THEN {fs \in SUBSET FileUniverse : Cardinality(fs) <= MaxDirFiles}
                    ELSE {{}})
  /\ pc = "call"
  /\ i = 1
  /\ image_files = <<>>
  /\ video_files = <<>>
  /\ stats = NewStats(0, 0)
  /\ results = <<>>
  /\ result_files = [st \in Stems |-> NoArtifact]
  /\ media_files = [f \in FileUniverse |-> "absent"]
  /\ made_dirs = {}
  /\ prior \in priors
  /\ summary = prior
  /\ log = <<>>
  /\ open_handles = 0
  /\ call = NoCall
  /\ raised = ""
  /\ NoOffline

\* the batch workflows called with the default delay and output_dir
Init ==
  /\ InitBatch({DefaultDelay}, {FastServer}, {DefaultOutputDir}, ImageExtensionChoices,
               {NoSummary, PriorSummary})
  /\ unwritable = {}
  /\ twin = NoTwin

\* ---------------------------------------------------------------- actions
\* where the run goes after the iteration at index n of the image loop
AfterImage(n) ==
  IF n < Len(image_files) THEN "images"
  ELSE IF Len(video_files) > 0 THEN "videos" ELSE "summary"
AfterVideo(n) == IF n < Len(video_files) THEN "videos" ELSE "summary"

\* what an iteration appends to the log
Trace(path, out, b) ==
  <<Event("dispatch", path, FALSE, PyNone)>>
  \o [n \in 1..Len(out.reqs) |->
        Event("request", path, out.reqs[n].return_flag, PyNone)]
  \o (IF out.warned THEN <<Event("warning", path, FALSE, PyNone)>> ELSE <<>>)
  \o (IF b.media # "absent" THEN <<Event("media", path, FALSE, PyNone)>> ELSE <<>>)
  \o (IF b.artifact THEN <<Event("artifact", path, FALSE, b.result)>> ELSE <<>>)
  \o (IF b.truncated THEN <<Event("truncated", path, FALSE, PyNone)>> ELSE <<>>)
  \o (IF b.exc = "OSError" THEN <<Event("write failed", path, FALSE, PyNone)>>
      ELSE <<>>)

\* mutant of PauseOf: the pause is taken whatever the delay
PauseOf_Always(d, path, n, total) ==
  IF n < total
  THEN <<Event("sleep", path, FALSE, PyNone)>> ELSE <<>>

\* `if i < len(files) and delay > 0: time.sleep(delay)` after the iteration
\* at index n of a loop over total files, for the delay d
PauseOf(d, path, n, total) ==
  IF n < total /\ d > 0
  THEN <<Event("sleep", path, FALSE, PyNone)>> ELSE <<>>

Pause(path, n, total) == PauseOf(delay, path, n, total)

\* the effects of the loop body on disk and on the results dict, and the
\* pause that follows it
Effects(fn, path, r1, r2, out, b, pause) ==
  /\ call' = Call(fn, path, return_media,
                  SubSeq(<<r1, r2>>, 1, Len(out.reqs)), out, b)
  /\ log' = log \o Trace(path, out, b) \o pause
  /\ open_handles' = open_handles + out.leaked
  /\ media_files' = IF b.media # "absent"
                    THEN [media_files EXCEPT ![path] = b.media] ELSE media_files
  /\ result_files' =
       IF b.artifact
       THEN [result_files EXCEPT
               ![Stem(path)] = [content |-> b.result, writer |-> path]]
       ELSE IF b.truncated
       THEN [result_files EXCEPT
               ![Stem(path)] = [content |-> PyBytes("truncated"), writer |-> path]]
       ELSE result_files
  /\ results' = IF b.artifact THEN SetKey(results, path, b.result) ELSE results

\* "Set up output directory" and "Create processed directories": the
\* directories made (or found) before discovery
MakeDirs(processed) ==
  (IF output_dir # "" THEN {output_dir} ELSE {})
  \cup (IF return_media THEN {processed} ELSE {})

\* mutant of StartDirectory: the output directories are made before the
\* input directory is checked
StartDirectory_MkdirFirst ==
  /\ pc = "call" /\ workflow = "pose"
  /\ made_dirs' = MakeDirs("processed_poses")
  /\ IF ~dir_exists
     THEN /\ pc' = "raised" /\ raised' = "NotADirectoryError"
          /\ UNCHANGED <<image_files, video_files, stats>>
     ELSE LET imgs == IF mode \in {"image", "both"}
                      THEN FindFiles(dir_files, image_extensions) ELSE <<>>
              vids == IF mode \in {"video", "both"}
                      THEN FindFiles(dir_files, video_extensions) ELSE <<>>
          IN /\ image_files' = Sorted(imgs)
             /\ video_files' = Sorted(vids)
             /\ raised' = ""
             /\ IF Len(imgs) + Len(vids) = 0
                THEN pc' = "returned" /\ stats' = stats
                ELSE /\ stats' = NewStats(Len(imgs), Len(vids))
                     /\ pc' = IF Len(imgs) > 0 THEN "images" ELSE "videos"
  /\ UNCHANGED <<config, offline, i, results, result_files, media_files, summary, log,
                 open_handles, call>>

\* process_directory: from the call to the start of the loops
StartDirectory ==
  /\ pc = "call" /\ workflow = "pose"
  /\ IF ~dir_exists
     THEN /\ pc' = "raised" /\ raised' = "NotADirectoryError"
          /\ UNCHANGED <<image_files, video_files, stats, made_dirs>>
     ELSE LET imgs == IF mode \in {"image", "both"}
                      THEN FindFiles(dir_files, image_extensions) ELSE <<>>
              vids == IF mode \in {"video", "both"}
                      THEN FindFiles(dir_files, video_extensions) ELSE <<>>
          IN /\ made_dirs' = MakeDirs("processed_poses")
             /\ image_files' = Sorted(imgs)
             /\ video_files' = Sorted(vids)
             /\ raised' = ""
             /\ IF Len(imgs) + Len(vids) = 0
                THEN pc' = "returned" /\ stats' = stats
                ELSE /\ stats' = NewStats(Len(imgs), Len(vids))
                     /\ pc' = IF Len(imgs) > 0 THEN "images" ELSE "videos"
  /\ UNCHANGED <<config, offline, i, results, result_files, media_files, summary, log,
                 open_handles, call>>

\* process_directory: one iteration of the image loop
ProcessImage ==
  /\ pc = "images" /\ workflow = "pose"
  /\ \E exists \in BOOLEAN, r1 \in ServerResponses("image"),
        r2 \in ServerResponses("image") :
       LET path == image_files[i]
           out == detect_pose_in_image(exists, return_media, r1, r2)
           b == WriteBody(unwritable, path, out, return_media)
       IN /\ Effects("detect_pose_in_image", path, r1, r2, out, b,
                     Pause(path, i, Len(image_files)))
          /\ stats' = IF b.exc # ""
                      THEN [stats EXCEPT !.errors = Append(@, ErrorEntry(path, b.exc))]
                      ELSE UpdateStatistics(stats, path, b.result)
  /\ pc' = AfterImage(i)
  /\ i' = IF i < Len(image_files) THEN i + 1 ELSE 1
  /\ UNCHANGED <<config, offline, made_dirs, image_files, video_files, summary, raised>>

\* process_directory: one iteration of the video loop
ProcessVideo ==
  /\ pc = "videos" /\ workflow = "pose"
  /\ \E exists \in BOOLEAN, r1 \in ServerResponses("video"),
        r2 \in ServerResponses("video") :
       LET path == video_files[i]
           out == detect_pose_in_video(exists, return_media, r1, r2)
           b == WriteBody(unwritable, path, out, return_media)
       IN /\ Effects("detect_pose_in_video", path, r1, r2, out, b,
                     Pause(path, i, Len(video_files)))
          /\ stats' = IF b.exc # ""
                      THEN [stats EXCEPT !.errors = Append(@, ErrorEntry(path, b.exc))]
                      ELSE UpdateStatistics(stats, path, b.result)
  /\ pc' = AfterVideo(i)
  /\ i' = IF i < Len(video_files) THEN i + 1 ELSE 1
  /\ UNCHANGED <<config, offline, made_dirs, image_files, video_files, summary, raised>>

\* time.time() - start_time (lines 270, 416), in tenths of a second: the
\* pauses of the run, of d each, and its requests, of lat each; the steps
\* the program takes on its own machine are far below the unit
ElapsedOf(d, lat, events) ==
  d * Len(SelectSeq(events, LAMBDA e : e.ev = "sleep"))
  + lat * Len(SelectSeq(events, LAMBDA e : e.ev = "request"))

Elapsed == ElapsedOf(delay, latency, log)

\* the entry of one file in results_by_file
IndexEntry(result) ==
  [poses |-> IF result.t = "dict" THEN Get(result.d, "count", 0) ELSE 0,
   actions |-> IF result.t = "dict" THEN Get(result.d, "detected_actions", <<>>)
               ELSE <<>>,
   results_file |-> IF result.t = "dict" THEN Get(result.d, "results_file", "null")
                    ELSE "null",
   media_path |-> IF result.t = "dict"
                  THEN Get(result.d, "image_path", Get(result.d, "video_path", "null"))
                  ELSE "null",
   processed |-> "null"]

\* mutant of WriteSummary: the index is merged into the one already on disk
WriteSummary_Merge ==
  /\ pc = "summary" /\ workflow = "pose"
  /\ stats' = [stats EXCEPT !.processing_time = Elapsed]
  /\ IF SummaryTarget \in unwritable
     THEN /\ pc' = "raised" /\ raised' = "OSError"
          /\ UNCHANGED <<summary, log>>
     ELSE /\ summary' = [origin |-> "this run",
                         statistics |-> stats',
                         index |-> summary.index \o
                                   [n \in 1..Len(results) |->
                                      <<results[n][1], IndexEntry(results[n][2])>>]]
          /\ log' = Append(log, Event("summary", "", FALSE, PyNone))
          /\ pc' = "returned" /\ raised' = raised
  /\ UNCHANGED <<config, offline, made_dirs, i, image_files, video_files, results,
                 result_files, media_files, open_handles, call>>

\* process_directory: the summary write and the return; when the summary
\* cannot be opened for writing, `open(summary_path, 'w')` (line 420) raises
\* OSError out of the call
WriteSummary ==
  /\ pc = "summary" /\ workflow = "pose"
  /\ stats' = [stats EXCEPT !.processing_time = Elapsed]
  /\ IF SummaryTarget \in unwritable
     THEN /\ pc' = "raised" /\ raised' = "OSError"
          /\ UNCHANGED <<summary, log>>
     ELSE /\ summary' = [origin |-> "this run",
                         statistics |-> stats',
                         index |-> [n \in 1..Len(results) |->
                                      <<results[n][1], IndexEntry(results[n][2])>>]]
          /\ log' = Append(log, Event("summary", "", FALSE, PyNone))
          /\ pc' = "returned" /\ raised' = raised
  /\ UNCHANGED <<config, offline, made_dirs, i, image_files, video_files, results,
                 result_files, media_files, open_handles, call>>

\* process_image_directory: from the call to the start of the loop
StartImageDirectory ==
  /\ pc = "call" /\ workflow = "gesture"
  /\ IF ~dir_exists
     THEN /\ pc' = "raised" /\ raised' = "NotADirectoryError"
          /\ UNCHANGED <<image_files, made_dirs>>
     ELSE LET imgs == FindFiles(dir_files, image_extensions)
          IN /\ made_dirs' = MakeDirs("processed_images")
             /\ image_files' = Sorted(imgs)
             /\ raised' = ""
             /\ pc' = IF imgs = <<>> THEN "returned" ELSE "images"
  /\ UNCHANGED <<config, offline, i, video_files, stats, results, result_files,
                 media_files, summary, log, open_handles, call>>

\* process_image_directory: one iteration of the loop; nothing catches an
\* exception of the body
ProcessGestureImage ==
  /\ pc = "images" /\ workflow = "gesture"
  /\ \E exists \in BOOLEAN, r1 \in ServerResponses("image"),
        r2 \in ServerResponses("image") :
       LET path == image_files[i]
           out == detect_gesture_in_image(exists, return_media, r1, r2)
           b == WriteBody(unwritable, path, out, return_media)
       IN /\ Effects("detect_gesture_in_image", path, r1, r2, out, b,
                     IF b.exc # "" THEN <<>>
                     ELSE Pause(path, i, Len(image_files)))
          /\ raised' = b.exc
          /\ pc' = IF b.exc # "" THEN "raised"
                   ELSE IF i < Len(image_files) THEN "images" ELSE "summary"
  /\ i' = i + 1
  /\ UNCHANGED <<config, offline, made_dirs, image_files, video_files, stats, summary>>

\* the entry of one file in detection_summary.json
GestureEntry(path, result) ==
  [poses |-> IF Truthy(result) THEN Get(result.d, "count", 0) ELSE 0,
   actions |-> <<>>,
   results_file |-> "null",
   media_path |-> "null",
   processed |-> IF return_media THEN path ELSE "null"]

\* process_image_directory: the summary write and the return; when the
\* summary cannot be opened for writing, line 164 raises OSError out of the
\* call
WriteImageSummary ==
  /\ pc = "summary" /\ workflow = "gesture"
  /\ IF SummaryTarget \in unwritable
     THEN /\ pc' = "raised" /\ raised' = "OSError"
          /\ UNCHANGED <<summary, log>>
     ELSE /\ summary' = [origin |-> "this run",
                         statistics |-> stats,
                         index |-> [n \in 1..Len(results) |->
                                      <<results[n][1],
                                        GestureEntry(results[n][1], results[n][2])>>]]
          /\ log' = Append(log, Event("summary", "", FALSE, PyNone))
          /\ pc' = "returned" /\ raised' = raised
  /\ UNCHANGED <<config, offline, made_dirs, i, image_files, video_files, stats,
                 results, result_files, media_files, open_handles, call>>

Next ==
  \/ StartDirectory
  \/ ProcessImage
  \/ ProcessVideo
  \/ WriteSummary
  \/ StartImageDirectory
  \/ ProcessGestureImage
  \/ WriteImageSummary

Spec == Init /\ [][Next]_vars

\* the batch workflows called with and without a delay and an output_dir,
\* with the default extensions, nothing left by an earlier run
InitArgs ==
  /\ InitBatch(Delays, {FastServer}, OutputDirChoices, {DefaultImageExtensions},
               {NoSummary})
  /\ unwritable = {}
  /\ twin = NoTwin
SpecArgs == InitArgs /\ [][Next]_vars

\* The targets that cannot be opened for writing in a run: the result
\* artifact of stem a, or the processed media of a.jpg and of a.mp4 (the
\* target exists as a directory, or is read-only).
UnwritableChoices ==
  { {ResultTarget("a.jpg")}, {MediaTarget("a.jpg"), MediaTarget("a.mp4")} }

\* the batch workflows when a per-file target cannot be written, called
\* without delay, with the default extensions, nothing left by an earlier run
InitFaults ==
  /\ InitBatch({0}, {FastServer}, {DefaultOutputDir}, {DefaultImageExtensions},
               {NoSummary})
  /\ unwritable \in UnwritableChoices
  /\ twin = NoTwin
SpecFaults == InitFaults /\ [][Next]_vars

\* ------------------------------------------------- statistics, replayed
\* The "Update statistics" block applied to every collection of per-file
\* results, the first of them in the image loop (lines 313-328), the others
\* in the video loop (lines 384-399).
\* per-file results beyond those of ServerResponses: a failure record that
\* also carries counts, a success without actions, a second pair of actions
ErrWithCounts ==
  << <<"detail", "bad input">>, <<"count", 3>>,
     <<"detected_actions", << <<"wave", 3>> >> >> >>
OkNoActions == << <<"count", 2>>, <<"detected_actions", <<>> >> >>
OkWaveJump ==
  << <<"count", 3>>, <<"detected_actions", << <<"wave", 2>>, <<"jump", 1>> >> >> >>

ResultUniverse ==
  { PyDict(OkWave), PyDict(OkSitWave), PyDict(OkWaveJump), PyDict(OkNoActions),
    PyDict(ErrDetail), PyDict(ErrWithCounts), PyDict(ErrNoDetail) }

\* the path of the n-th file of a replay
PathOf(n) == FileOrder[n]

\* the batch variables while no batch workflow runs
NoBatch ==
  /\ workflow = "pose"
  /\ return_media = FALSE
  /\ mode = "both"
  /\ image_extensions = DefaultImageExtensions
  /\ video_extensions = DefaultVideoExtensions
  /\ delay = DefaultDelay
  /\ latency = FastServer
  /\ output_dir = DefaultOutputDir
  /\ dir_exists = TRUE
  /\ dir_files = {}
  /\ unwritable = {}
  /\ prior = NoSummary
  /\ pc = "offline"
  /\ i = 1
  /\ image_files = <<>>
  /\ video_files = <<>>
  /\ results = <<>>
  /\ result_files = [st \in Stems |-> NoArtifact]
  /\ media_files = [f \in FileUniverse |-> "absent"]
  /\ made_dirs = {}
  /\ summary = NoSummary
  /\ log = <<>>
  /\ open_handles = 0
  /\ call = NoCall
  /\ raised = ""

batch ==
  <<config, pc, i, image_files, video_files, results, result_files,
    media_files, made_dirs, summary, log, open_handles, call, raised>>

\* queue: all the per-file results of the run, those of the image files
\* first; images the number of image files, left the indices of the results
\* not yet recorded, last the index recorded by the latest step (0: none).
\* The run has found files (line 252), stats is the dict of lines 259-267.
InitStats ==
  /\ NoBatch
  /\ \E n \in 1..MaxRecorded :
       \E all \in [1..n -> ResultUniverse], images \in 0..n :
         /\ queue = [all |-> all, images |-> images, left |-> 1..n, last |-> 0]
         /\ stats = NewStats(images, n - images)
  /\ summary_data = PyNone
  /\ report = NoReport
  /\ chart = NoChart
  /\ custom_summary = NoCustomSummary
  /\ twin = NoTwin

\* the next result to record: the loops take the files in order
NextInQueue == CHOOSE k \in queue.left : \A m \in queue.left : k <= m

\* lines 313-328: a result is recorded by the image loop
RecordInImageLoop ==
  /\ queue.left # {} /\ NextInQueue <= queue.images
  /\ stats' = UpdateStatistics(stats, PathOf(NextInQueue), queue.all[NextInQueue])
  /\ queue' = [queue EXCEPT !.left = @ \ {NextInQueue}, !.last = NextInQueue]
  /\ UNCHANGED <<batch, summary_data, report, chart, custom_summary, twin>>

\* lines 384-399: a result is recorded by the video loop, which follows the
\* image loop
RecordInVideoLoop ==
  /\ queue.left # {} /\ NextInQueue > queue.images
  /\ stats' = UpdateStatistics(stats, PathOf(NextInQueue), queue.all[NextInQueue])
  /\ queue' = [queue EXCEPT !.left = @ \ {NextInQueue}, !.last = NextInQueue]
  /\ UNCHANGED <<batch, summary_data, report, chart, custom_summary, twin>>

NextStats ==
  \/ RecordInImageLoop
  \/ RecordInVideoLoop

SpecStats == InitStats /\ [][NextStats]_vars

\* ------------------------------------------------------ two runs, two delays
\* The call of the batch variables made without delay and, side by side in
\* `twin`, the same call over the same directory with the same answers and
\* the default delay: after every step of the first, the second takes the
\* same step of the code.  twin.at is the <<pc, i>> the second run has
\* reached.
InitTwin ==
  /\ InitBatch({0}, Latencies, {DefaultOutputDir}, {DefaultImageExtensions},
               {NoSummary})
  /\ unwritable = {}
  /\ twin = [delay |-> DefaultDelay, at |-> <<pc, i>>, log |-> log,
             stats |-> stats, results |-> results,
             result_files |-> result_files, media_files |-> media_files,
             summary |-> summary]

TwinCaughtUp == twin.at = <<pc, i>>

\* the detect call c made again with the same answers
Redo(c) ==
  LET exists == c.out.exc # "FileNotFoundError"
      r1 == IF Len(c.resps) >= 1 THEN c.resps[1] ELSE ConnFail
      r2 == IF Len(c.resps) >= 2 THEN c.resps[2] ELSE ConnFail
  IN CASE c.fn = "detect_pose_in_image" ->
            detect_pose_in_image(exists, c.requested, r1, r2)
       [] c.fn = "detect_pose_in_video" ->
            detect_pose_in_video(exists, c.requested, r1, r2)
       [] OTHER -> detect_gesture_in_image(exists, c.requested, r1, r2)

\* the second run after the start of the workflow (lines 220-271)
TwinAfterStart(t) ==
  [t EXCEPT !.stats = IF workflow = "pose" /\ image_files \o video_files # <<>>
                      THEN NewStats(Len(image_files), Len(video_files)) ELSE @]

\* the second run after the loop iteration at index n of total, for the file
\* and the answers of call c (lines 274-342, 345-413; 134-160)
TwinAfterFile(t, c, n, total) ==
  LET out == Redo(c)
      b == WriteBody(unwritable, c.file, out, c.requested)
      pause == IF workflow = "gesture" /\ b.exc # "" THEN <<>>
               ELSE PauseOf(t.delay, c.file, n, total)
  IN [t EXCEPT
        !.log = @ \o Trace(c.file, out, b) \o pause,
        !.media_files = IF b.media # "absent"
                        THEN [@ EXCEPT ![c.file] = b.media] ELSE @,
        !.result_files =
           IF b.artifact
           THEN [@ EXCEPT ![Stem(c.file)] = [content |-> b.result, writer |-> c.file]]
           ELSE IF b.truncated
           THEN [@ EXCEPT ![Stem(c.file)] =
                            [content |-> PyBytes("truncated"), writer |-> c.file]]
           ELSE @,
        !.results = IF b.artifact THEN SetKey(@, c.file, b.result) ELSE @,
        !.stats = IF workflow # "pose" THEN @
                  ELSE IF b.exc # ""
                    THEN [@ EXCEPT !.errors = Append(@, ErrorEntry(c.file, b.exc))]
                  ELSE UpdateStatistics(@, c.file, b.result)]

\* the second run after the summary write (lines 415-432; 162-173)
TwinAfterSummary(t) ==
  LET st == IF workflow = "pose"
            THEN [t.stats EXCEPT !.processing_time = ElapsedOf(t.delay, latency, t.log)]
            ELSE t.stats
  IN IF SummaryTarget \in unwritable THEN [t EXCEPT !.stats = st]
     ELSE [t EXCEPT
        !.stats = st,
        !.summary =
           [origin |-> "this run",
            statistics |-> st,
            index |-> [n \in 1..Len(t.results) |->
                         <<t.results[n][1],
                           IF workflow = "pose" THEN IndexEntry(t.results[n][2])
                           ELSE GestureEntry(t.results[n][1], t.results[n][2])>>]],
        !.log = Append(@, Event("summary", "", FALSE, PyNone))]

\* the second run takes the step the first has just taken
TwinStep ==
  /\ ~TwinCaughtUp
  /\ twin' =
       [(CASE twin.at[1] = "call" -> TwinAfterStart(twin)
           [] twin.at[1] = "images" ->
                TwinAfterFile(twin, call, twin.at[2], Len(image_files))
           [] twin.at[1] = "videos" ->
                TwinAfterFile(twin, call, twin.at[2], Len(video_files))
           [] OTHER -> TwinAfterSummary(twin))
        EXCEPT !.at = <<pc, i>>]
  /\ UNCHANGED <<batch, stats, queue, summary_data, report, chart, custom_summary>>

\* a step of the first run, the second having caught up
FirstRunStep == TwinCaughtUp /\ Next

NextTwin ==
  \/ FirstRunStep
  \/ TwinStep

SpecTwin == InitTwin /\ [][NextTwin]_vars

\* ------------------------------------------- the run, then the offline tools
\* send_pose_directory.py run from the command line (process_directory, then
\* the chart step), followed by analyze_pose_results.py over the output
\* directory.  The endpoint takes 0.3 s over a request.
\* pose_detection_summary.json as json.dump wrote it
SummaryText == json_dump(SummaryValue(summary))

\* json.load of pose_detection_summary.json
LoadedSummary == Plain(json_load(SummaryText))

InitCli ==
  /\ InitBatch({DefaultDelay}, {SlowServer}, {DefaultOutputDir},
               {DefaultImageExtensions}, {NoSummary})
  /\ workflow = "pose"
  /\ unwritable = {}
  /\ twin = NoTwin

\* send_pose_directory.py, lines 542-550: after process_directory returned,
\* the summary is read back when it exists and the chart is made from its
\* statistics; an exception of process_directory skips the step (line 554)
ChartStep ==
  /\ pc = "returned" /\ workflow = "pose"
  /\ summary.origin # "none"
  /\ ~chart.called
  /\ summary_data' = PyDict(LoadedSummary)
  /\ chart' = create_action_chart(Get(summary_data'.d, "statistics", <<>>))
  /\ UNCHANGED <<batch, stats, queue, report, custom_summary, twin>>

\* analyze_pose_results.py run afterwards, lines 195-197 and 222-225:
\* load_summary_file found the summary the run wrote (a dict that is not
\* empty), the report is generated from it
AnalyzeSummary ==
  /\ pc = "returned" /\ workflow = "pose"
  /\ summary.origin # "none"
  /\ chart.called /\ ~report.returned
  /\ summary_data' = PyDict(LoadedSummary)
  /\ summary_data'.d # <<>>
  /\ report' = [returned |-> TRUE, lines |-> generate_action_report(summary_data'.d)]
  /\ UNCHANGED <<batch, stats, queue, chart, custom_summary, twin>>

\* list_result_files(directory): the *pose_result.json files of the
\* directory
ResultFiles == {st \in Stems : result_files[st].writer # ""}

\* the orders in which glob may list them
ResultFileOrders ==
  {order \in [1..Cardinality(ResultFiles) -> ResultFiles] :
     \A p, q \in 1..Cardinality(ResultFiles) : p # q => order[p] # order[q]}

\* analyze_pose_results.py run afterwards, lines 195-202: load_summary_file
\* returned {} (no summary at the path, or one that cannot be read),
\* list_result_files found files, custom_summary =
\* summarize_file_results(files)
SummarizeFiles ==
  /\ pc \in {"returned", "raised"} /\ workflow = "pose"
  /\ summary.origin = "none"
  /\ ResultFiles # {}
  /\ ~custom_summary.done
  /\ \E order \in ResultFileOrders :
       custom_summary' =
         summarize_file_results([n \in 1..Len(order) |->
                                   result_files[order[n]].content])
  /\ UNCHANGED <<batch, stats, queue, summary_data, report, chart, twin>>

NextCli ==
  \/ StartDirectory
  \/ ProcessImage
  \/ ProcessVideo
  \/ WriteSummary
  \/ ChartStep
  \/ AnalyzeSummary

SpecCli == InitCli /\ [][NextCli]_vars

\* The same two tools when the summary of the run cannot be written (a
\* directory of that name is in the way): process_directory raises at line
\* 420, the chart step is skipped, and analyze_pose_results.py finds no
\* summary it can read.
InitCliNoSummary ==
  /\ InitBatch({DefaultDelay}, {SlowServer}, {DefaultOutputDir},
               {DefaultImageExtensions}, {NoSummary})
  /\ workflow = "pose"
  /\ unwritable = {SummaryTarget}
  /\ twin = NoTwin

NextCliNoSummary ==
  \/ StartDirectory
  \/ ProcessImage
  \/ ProcessVideo
  \/ WriteSummary
  \/ SummarizeFiles

SpecCliNoSummary == InitCliNoSummary /\ [][NextCliNoSummary]_vars

TypeOK ==
  /\ pc \in {"call", "images", "videos", "summary", "returned", "raised"}
  /\ open_handles \in Nat
  /\ (raised # "") = (pc = "raised")

\* ------------------------------------------------------ derived histories
Categories == {"wave", "sit", "jump"}

\* the per-file results recorded so far, in order
Recorded == SelectSeq(log, LAMBDA e : e.ev = "artifact")

\* a Success result: a dict response without a `detail` field
IsSuccess(v) == v.t = "dict" /\ ~HasKey(v.d, "detail")

RECURSIVE SumCount(_)
SumCount(events) ==
  IF events = <<>> THEN 0
  ELSE (IF IsSuccess(Head(events).value)
        THEN Get(Head(events).value.d, "count", 0) ELSE 0)
       + SumCount(Tail(events))

RECURSIVE SumAction(_, _)
SumAction(events, c) ==
  IF events = <<>> THEN 0
  ELSE (IF IsSuccess(Head(events).value)
        THEN Get(Get(Head(events).value.d, "detected_actions", <<>>), c, 0)
        ELSE 0)
       + SumAction(Tail(events), c)

InBatch == pc \in {"images", "videos", "summary", "returned"}

\* ------------------------------------------------- report and chart, run
\* generate_action_report and create_action_chart applied to a summary
\* drawn from a bounded set.
\* the tallies: every sequence of distinct categories, counts 0..MaxCount
Tallies ==
  {t \in UNION {[1..n -> Categories \X (0..MaxCount)] : n \in 0..Cardinality(Categories)} :
     \A p, q \in 1..Len(t) : p # q => t[p][1] # t[q][1]}

\* the statistics dicts: empty, or the keys of a written summary
StatsDicts ==
  {<<>>} \cup
  { << <<"total_files", files>>, <<"total_poses_detected", poses>>,
       <<"actions", t>>, <<"processing_time", 0>> >> :
      files \in {0, 2}, poses \in {0, 3}, t \in Tallies }

\* RunStatistics of a run over nothing: zero files, zero detections, empty
\* tally
EmptyStatistics ==
  << <<"total_files", 0>>, <<"total_poses_detected", 0>>,
     <<"actions", <<>> >>, <<"processing_time", 0>> >>

SummaryDicts ==
  {PyDict(<<>>), PyDict(<< <<"results_by_file", <<>> >> >>)}
  \cup {PyDict(<< <<"statistics", st>> >>) : st \in StatsDicts}

InitReport ==
  /\ NoBatch
  /\ stats = NewStats(0, 0)
  /\ queue = [all |-> <<>>, images |-> 0, left |-> {}, last |-> 0]
  /\ summary_data \in SummaryDicts
  /\ report = NoReport
  /\ chart = NoChart
  /\ custom_summary = NoCustomSummary
  /\ twin = NoTwin

\* analyze_pose_results.py, lines 197 and 222-224: `if not summary: ... else:
\* report = generate_action_report(summary, ...)`; an empty summary takes
\* the other branch
GenerateReport ==
  /\ pc = "offline" /\ summary_data.t = "dict"
  /\ summary_data.d # <<>>
  /\ ~report.returned
  /\ report' = [returned |-> TRUE, lines |-> generate_action_report(summary_data.d)]
  /\ UNCHANGED <<batch, stats, queue, summary_data, chart, custom_summary, twin>>

\* send_pose_directory.py, lines 549-550: stats = summary.get("statistics", {});
\* create_action_chart(stats, output_dir)
CreateChart ==
  /\ pc = "offline" /\ summary_data.t = "dict"
  /\ ~chart.called
  /\ chart' = create_action_chart(Get(summary_data.d, "statistics", <<>>))
  /\ UNCHANGED <<batch, stats, queue, summary_data, report, custom_summary, twin>>

NextReport ==
  \/ GenerateReport
  \/ CreateChart

SpecReport == InitReport /\ [][NextReport]_vars

\* ------------------------------------------------------------------ claims
\* C1: at every point of a process_directory run, total_poses_detected is
\* the sum of `count` over the Success results recorded so far, and the
\* tally of every category is the sum of that category's detected_actions
\* over the same results; the tally has no other key.
C1_TallyIsSumOfRecorded ==
  (workflow = "pose" /\ InBatch) =>
    /\ stats.total_poses_detected = SumCount(Recorded)
    /\ \A c \in Categories : Get(stats.actions, c, 0) = SumAction(Recorded, c)
    /\ \A n \in 1..Len(stats.actions) : stats.actions[n][1] \in Categories

\* C1 witness: a finished run that recorded two successes with a common
\* category
C1_Witness ==
  /\ workflow = "pose" /\ pc = "returned"
  /\ Get(stats.actions, "wave", 0) = 2
  /\ Get(stats.actions, "sit", 0) = 1
  /\ stats.total_poses_detected = 3
  /\ Len(Recorded) = 2

\* the files dispatched so far, in order
Dispatched ==
  LET d == SelectSeq(log, LAMBDA e : e.ev = "dispatch")
  IN [n \in 1..Len(d) |-> d[n].file]
SummaryWrites == Len(SelectSeq(log, LAMBDA e : e.ev = "summary"))
Discovered == image_files \o video_files

\* C2: a per-file error never stops a batch: once files were discovered, a
\* run that is over has dispatched every discovered file and has written the
\* summary.
C2_PerFileErrorNeverStopsBatch ==
  (pc \in {"returned", "raised"} /\ Discovered # <<>>) =>
    /\ Dispatched = Discovered
    /\ SummaryWrites = 1

\* C3: for every dispatched file (a request was sent for it), the per-file
\* JSON artifact of that file is written before the next file is dispatched
\* (and before the summary).
C3_ArtifactBeforeNextDispatch ==
  \A k \in 1..Len(log) :
    (log[k].ev = "dispatch" /\ k < Len(log) /\ log[k + 1].ev = "request") =>
      LET later == {m \in (k + 1)..Len(log) : log[m].ev \in {"dispatch", "summary"}}
      IN later # {} =>
           \E j \in (k + 1)..Len(log) :
             /\ \A m \in later : j < m
             /\ log[j].ev = "artifact"
             /\ log[j].file = log[k].file

\* the requests of a call that failed at network level or by HTTP status
FailedRequests(c) ==
  {n \in 1..Len(c.resps) : c.resps[n].status \in {"conn", "err"}}

\* C4: a detect call of which a request failed (network level or HTTP
\* status) does not raise and returns a Failure record, a dict that contains
\* `detail`.
C4_TransportFailureGivesFailureRecord ==
  (call.fn # "" /\ FailedRequests(call) # {}) =>
    /\ call.out.exc = ""
    /\ call.out.json.t = "dict"
    /\ HasKey(call.out.json.d, "detail")

\* C5: when the first request of a pose detect call fails, the returned
\* record has a `detail` message: the `detail` of the server's JSON error
\* body when it has one, else the exception text; it is not a Success.
C5_FailureMessageIsDetailOrExceptionText ==
  (call.fn \in {"detect_pose_in_image", "detect_pose_in_video"}
   /\ 1 \in FailedRequests(call)) =>
    LET r == call.resps[1]
        text == IF r.status = "conn" THEN "ConnectionError" ELSE "HTTPError"
        message == IF r.body.t = "dict" /\ HasKey(r.body.d, "detail")
                   THEN Get(r.body.d, "detail", "") ELSE text
    IN /\ call.out.json.t = "dict"
       /\ HasKey(call.out.json.d, "detail")
       /\ Get(call.out.json.d, "detail", "") = message
       /\ ~IsSuccess(call.out.json)

JsonContentTypes == {"application/json", "application/json; charset=utf-8"}

\* C6: when processed media is requested and the answer to the request that
\* carries the return-media flag is a 2xx response with a JSON content-type,
\* the call returns the pair (JSON result, None), the warning is printed and
\* no processed-media file is written for the file.
C6_JsonInsteadOfMediaFallsBack ==
  \A n \in 1..Len(call.resps) :
    (/\ call.requested
     /\ call.out.reqs[n].return_flag
     /\ \A m \in 1..(n - 1) : RequestFailure(call.resps[m], TRUE, TRUE) = ""
     /\ call.resps[n].status = "ok"
     /\ call.resps[n].ctype \in JsonContentTypes) =>
      /\ call.out.pair
      /\ call.out.json.t = "dict"
      /\ call.out.media = PyNone
      /\ call.out.warned
      /\ ~call.media_written

\* C7: a detect call made with return_image / return_video = True that
\* returns, returns a pair, on every path.
C7_PairWhenRequested ==
  (call.fn # "" /\ call.requested /\ call.out.exc = "") => call.out.pair

\* C8 as stated: the first request of every detect call carries no
\* return-media flag; a second request is sent only when processed media was
\* requested and carries the flag.
C8_FirstRequestIsJson ==
  call.fn # "" =>
    /\ Len(call.out.reqs) >= 1 => ~call.out.reqs[1].return_flag
    /\ Len(call.out.reqs) >= 2 => call.requested /\ call.out.reqs[2].return_flag

\* C8 amended: an image detect call sends the JSON request (no return_image
\* flag) first and a second request only when processed media was requested,
\* that one carrying the flag.  A video detect call sends first the request
\* that carries return_video exactly when processed video was requested, and
\* a second request only when the first answer has content-type video/mp4,
\* that one carrying no flag.
C8_RequestOrder ==
  call.fn # "" =>
    /\ Len(call.out.reqs) <= 2
    /\ IF call.fn = "detect_pose_in_video"
       THEN /\ Len(call.out.reqs) >= 1 =>
                 call.out.reqs[1].return_flag = call.requested
            /\ Len(call.out.reqs) >= 2 =>
                 /\ call.resps[1].ctype = "video/mp4"
                 /\ ~call.out.reqs[2].return_flag
       ELSE /\ Len(call.out.reqs) >= 1 => ~call.out.reqs[1].return_flag
            /\ Len(call.out.reqs) >= 2 =>
                 call.requested /\ call.out.reqs[2].return_flag

\* C8 witness: a video call with processed video requested that sent both
\* requests, after an image call of the same run that sent both
C8_Witness ==
  /\ call.fn = "detect_pose_in_video" /\ call.requested
  /\ Len(call.out.reqs) = 2
  /\ \E k \in 1..Len(log) :
       log[k].ev = "request" /\ log[k].file \in {"a.jpg", "a.png"} /\ log[k].flag

\* C9: after any sequence of detect calls no upload handle is open.
C9_NoOpenHandles == open_handles = 0

\* the summary on disk describes the run that returned, and nothing else
SummaryOfThisRun ==
  /\ summary.origin = "this run"
  /\ summary.statistics = stats
  /\ [n \in 1..Len(summary.index) |-> summary.index[n][1]]
       = [n \in 1..Len(results) |-> results[n][1]]

\* C10 as stated: every process_directory run over an existing directory
\* writes the summary exactly once, as its last step, and after the return
\* the summary on disk describes this run only.
C10_OneSummaryPerRun ==
  (workflow = "pose" /\ pc = "returned") =>
    /\ SummaryWrites = 1
    /\ log[Len(log)].ev = "summary"
    /\ SummaryOfThisRun

\* C10 amended: a process_directory run that discovers at least one file
\* writes the summary exactly once, as its last step, and after the return
\* the summary on disk describes this run only; a run that discovers no file
\* writes no summary and leaves what was at that path as it was.
C10_OneSummaryPerNonEmptyRun ==
  (workflow = "pose" /\ pc = "returned") =>
    IF Discovered # <<>>
    THEN /\ SummaryWrites = 1
         /\ log[Len(log)].ev = "summary"
         /\ SummaryOfThisRun
    ELSE /\ SummaryWrites = 0
         /\ summary = prior

\* C10 witness: a run over discovered files has returned and its summary
\* has replaced the one an earlier run left
C10_Witness ==
  /\ workflow = "pose" /\ pc = "returned"
  /\ prior = PriorSummary
  /\ Len(Discovered) = 2
  /\ SummaryOfThisRun

\* the files whose per-file JSON this run has written (or begun to write)
WrittenFor(ev) ==
  {log[k].file : k \in {m \in 1..Len(log) : log[m].ev = ev}}

\* the write of the per-file artifact of file f was attempted:
\* `open(output_json, 'w')` was reached (the artifact was written, or
\* json.dump stopped in the middle, or the file could not be opened)
WriteAttempted(f) ==
  \E k \in 1..Len(log) :
    log[k].file = f /\ log[k].ev \in {"artifact", "truncated", "write failed"}

\* C11: the summary is written only after every discovered file has been
\* dispatched and the write of its per-file artifact attempted, and it is the
\* last thing the run writes; while the run has not written it, the summary
\* on disk is the one found at the call (absent or stale) and the per-file
\* artifacts on disk are those of exactly the files processed so far: every
\* file dispatched has its own artifact, every artifact is that of a file
\* dispatched, and no file still to come has written anything.
C11_SummaryAfterEveryFile ==
  /\ \A k \in 1..Len(log) :
       log[k].ev = "summary" =>
         /\ k = Len(log) /\ Dispatched = Discovered
         /\ \A n \in 1..Len(Discovered) : WriteAttempted(Discovered[n])
  /\ SummaryWrites = 0 =>
       /\ summary = prior
       /\ \A n \in 1..Len(Dispatched) :
            result_files[Stem(Dispatched[n])].writer = Dispatched[n]
       /\ \A st \in Stems :
            result_files[st] # NoArtifact =>
              /\ \E n \in 1..Len(Dispatched) : Dispatched[n] = result_files[st].writer
              /\ Stem(result_files[st].writer) = st
       /\ \A f \in FileUniverse :
            (\A n \in 1..Len(Dispatched) : Dispatched[n] # f) =>
              media_files[f] = "absent"

\* C11, the order of the writes alone: the summary is written only after
\* every discovered file has been dispatched and is the last thing the run
\* writes; until then the summary on disk is the one found at the call,
\* every artifact on disk was written by a file already dispatched, and no
\* file still to come has written anything.
C11_SummaryIsLast ==
  /\ \A k \in 1..Len(log) :
       log[k].ev = "summary" => (k = Len(log) /\ Dispatched = Discovered)
  /\ SummaryWrites = 0 =>
       /\ summary = prior
       /\ \A st \in Stems :
            result_files[st] # NoArtifact =>
              /\ \E n \in 1..Len(Dispatched) : Dispatched[n] = result_files[st].writer
              /\ Stem(result_files[st].writer) = st
       /\ WrittenFor("artifact") = {results[n][1] : n \in 1..Len(results)}
       /\ \A f \in FileUniverse :
            (\A n \in 1..Len(Dispatched) : Dispatched[n] # f) =>
              media_files[f] = "absent"

\* paths in ascending order
Ascending(paths) ==
  \A n \in 1..(Len(paths) - 1) : Rank(paths[n]) <= Rank(paths[n + 1])

\* one file at a time: the files are dispatched in discovery order, and
\* every request, write and pause of the run belongs to the file dispatched
\* last, so the requests of a file come after all that was done for the
\* files before it
OneAtATime ==
  /\ Dispatched = SubSeq(Discovered, 1, Len(Dispatched))
  /\ \A k \in 1..Len(log) :
       log[k].ev \notin {"dispatch", "summary"} =>
         /\ \E m \in 1..(k - 1) : log[m].ev = "dispatch"
         /\ LET last == CHOOSE m \in 1..(k - 1) :
                          /\ log[m].ev = "dispatch"
                          /\ \A j \in (m + 1)..(k - 1) : log[j].ev # "dispatch"
            IN log[k].file = log[last].file

\* C12 as stated: files are dispatched one at a time in discovery order, and
\* that order is ascending by path over the whole sequence of discovered
\* files, images and videos together.
C12_AscendingOverWholeRun ==
  InBatch => (OneAtATime /\ Ascending(Discovered))

\* C12 amended: files are dispatched one at a time in discovery order, and
\* that order is all images ascending by path followed by all videos
\* ascending by path.
C12_ImagesThenVideosAscending ==
  InBatch =>
    /\ OneAtATime
    /\ Discovered = image_files \o video_files
    /\ Ascending(image_files)
    /\ Ascending(video_files)

\* C12 witness: a finished run in mode 'both' that dispatched the image
\* b.JPG and then the video a.mp4
C12_Witness ==
  /\ pc = "returned" /\ mode = "both"
  /\ Dispatched = <<"b.JPG", "a.mp4">>
  /\ \E k \in 1..Len(log) : log[k].ev = "request" /\ log[k].file = "a.mp4"

\* an extension with its letters in lower case
Fold(ext) ==
  CASE ext \in {".jpg", ".JPG", ".Jpg"} -> ".jpg"
    [] OTHER -> ext

\* the entries of the directory whose extension is one of exts, ignoring case
Matching(exts) ==
  {f \in dir_files : \E n \in 1..Len(exts) : Fold(Suffix(f)) = Fold(exts[n])}

\* the files the call has to discover, given its mode
MatchingFiles ==
  (IF mode \in {"image", "both"} THEN Matching(image_extensions) ELSE {})
  \cup (IF mode \in {"video", "both"} THEN Matching(video_extensions) ELSE {})

\* how many times a file was discovered
Occurrences(f) ==
  Cardinality({n \in 1..Len(Discovered) : Discovered[n] = f})

\* C13: once discovery is over, every entry of the directory whose extension
\* matches a configured extension ignoring case has been discovered exactly
\* once and no other entry has been discovered, so the number of discovered
\* files (total_files when files were found) is the number of matching files.
C13_DiscoveredExactlyOnce ==
  (pc \notin {"call", "raised"}) =>
    /\ \A f \in FileUniverse :
         Occurrences(f) = IF f \in MatchingFiles THEN 1 ELSE 0
    /\ Len(Discovered) = Cardinality(MatchingFiles)

\* nothing has been written and no request has been sent
NothingDone ==
  /\ made_dirs = {}
  /\ log = <<>>
  /\ call = NoCall
  /\ \A st \in Stems : result_files[st] = NoArtifact
  /\ \A f \in FileUniverse : media_files[f] = "absent"
  /\ summary = prior

\* C14: when directory_path is not an existing directory, the batch workflow
\* raises the directory-not-found error (NotADirectoryError) as its only
\* step: no request is sent, no artifact is written and no output directory
\* is made, before or after it.
C14_MissingDirectoryFailsFirst ==
  ~dir_exists =>
    /\ pc \in {"call", "raised"}
    /\ pc = "raised" => raised = "NotADirectoryError"
    /\ NothingDone

\* C14 witness: a call that asked for an output directory and processed
\* media has failed on a missing input directory
C14_Witness ==
  /\ ~dir_exists /\ pc = "raised" /\ raised = "NotADirectoryError"
  /\ output_dir # "" /\ return_media
  /\ NothingDone

\* a Failure result: a dict with a `detail` field
IsFailure(v) == v.t = "dict" /\ HasKey(v.d, "detail")

\* C15: a step that records a Failure result appends exactly one
\* {file, message} entry to stats.errors, the message being the record's
\* `detail`, and leaves total_poses_detected and stats.actions as they were,
\* also when the record carries `count` or `detected_actions`.
C15_FailureOnlyAppendsError ==
  [][ (queue'.last # 0 /\ IsFailure(queue.all[queue'.last])) =>
        LET k == queue'.last
        IN /\ stats'.errors =
                Append(stats.errors,
                       ErrorEntry(PathOf(k), Get(queue.all[k].d, "detail", "")))
           /\ stats'.total_poses_detected = stats.total_poses_detected
           /\ stats'.actions = stats.actions ]_vars

\* C15 witness: a failure record that carries count and detected_actions was
\* recorded after a success
C15_Witness ==
  /\ pc = "offline" /\ queue.last # 0
  /\ queue.all[queue.last] = PyDict(ErrWithCounts)
  /\ Len(stats.errors) = 1
  /\ stats.total_poses_detected = 1
  /\ stats.actions = << <<"wave", 1>> >>

\* the detection of the file of call c failed: the file could not be opened
\* or its first request was not answered with a 2xx response
DetectionFailed(c) ==
  c.out.exc # "" \/ (c.resps # <<>> /\ c.resps[1].status \in {"conn", "err"})

\* the detection of the file of call c succeeded: every request it sent was
\* answered 2xx, the JSON ones with a Success result as application/json, the
\* media one (when requested) with media
DetectionSucceeded(c) ==
  /\ c.out.exc = "" /\ c.resps # <<>>
  /\ \A n \in 1..Len(c.resps) :
       /\ c.resps[n].status = "ok"
       /\ IF c.out.reqs[n].return_flag
          THEN c.requested /\ c.resps[n].body.t = "bytes"
          ELSE /\ c.resps[n].ctype = "application/json"
               /\ IsSuccess(c.resps[n].body)

\* C16: in a process_directory run, the iteration of a file whose detection
\* failed adds exactly one entry, for that file, to stats.errors and the
\* iteration of a file whose detection succeeded adds none; when the run
\* returns, total_files is the number of discovered files, images_processed
\* + videos_processed, failed files included.
C16_OneErrorPerFailedFile ==
  [][ (workflow = "pose" /\ pc \in {"images", "videos"}) =>
        /\ DetectionFailed(call') =>
             /\ Len(stats'.errors) = Len(stats.errors) + 1
             /\ stats'.errors[Len(stats'.errors)].file = call'.file
        /\ DetectionSucceeded(call') => stats'.errors = stats.errors
        /\ stats'.total_files = Len(Discovered)
        /\ stats'.total_files = stats'.images_processed + stats'.videos_processed
        /\ stats'.images_processed = Len(image_files)
        /\ stats'.videos_processed = Len(video_files) ]_vars

\* the statistics after recording all[n], all[n + 1], ... in that order
RECURSIVE Replay(_, _, _)
Replay(st, all, n) ==
  IF n > Len(all) THEN st
  ELSE Replay(UpdateStatistics(st, PathOf(n), all[n]), all, n + 1)

\* two tallies are the same mapping: same keys, same counts
SameMapping(a, b) ==
  \A c \in Categories : HasKey(a, c) = HasKey(b, c) /\ Get(a, c, 0) = Get(b, c, 0)

\* the orders in which n files can be recorded
Orders(n) ==
  {order \in [1..n -> 1..n] : \A p, q \in 1..n : p # q => order[p] # order[q]}

\* the statistics after recording the results of the queue in another order
Reordered(order) ==
  Replay(NewStats(queue.images, Len(queue.all) - queue.images),
         [k \in 1..Len(queue.all) |-> queue.all[order[k]]], 1)

\* C17: when all the results of a collection have been recorded, the image
\* loop taking some and the video loop the others, stats.actions is the same
\* mapping and total_poses_detected the same number as after recording the
\* same results in any other order.
C17_TallyIndependentOfOrder ==
  (pc = "offline" /\ queue.left = {}) =>
    \A order \in Orders(Len(queue.all)) :
      /\ SameMapping(stats.actions, Reordered(order).actions)
      /\ \A n \in 1..Len(stats.actions) : stats.actions[n][1] \in Categories
      /\ stats.total_poses_detected = Reordered(order).total_poses_detected

\* C17 witness: three results recorded, one by the image loop and two by
\* the video loop; in another order the keys of the tally come in another
\* order, the mapping is the same
C17_Witness ==
  /\ pc = "offline" /\ queue.left = {} /\ Len(queue.all) = 3
  /\ queue.images = 1
  /\ stats.actions = << <<"sit", 1>>, <<"wave", 4>>, <<"jump", 1>> >>
  /\ Reordered(<<2, 3, 1>>).actions
       = << <<"wave", 4>>, <<"jump", 1>>, <<"sit", 1>> >>

\* what a run did, but for its pauses
StripSleeps(events) == SelectSeq(events, LAMBDA e : e.ev # "sleep")

\* statistics, but for processing_time
NoTime(st) == [st EXCEPT !.processing_time = 0]

\* C18: of two batch runs over the same discovered files with the same
\* server responses, one with delay = 0 and one with delay = 0.5, the first
\* pauses nowhere, and after every step both have the same results, the same
\* per-file artifacts and processed media on disk, the same statistics and
\* summary but for processing_time, and have done the same things in the
\* same order but for the pauses.
C18_DelayChangesOnlyTime ==
  /\ delay = 0 => (\A k \in 1..Len(log) : log[k].ev # "sleep")
  /\ (twin # NoTwin /\ TwinCaughtUp) =>
       /\ twin.delay # delay
       /\ twin.results = results
       /\ twin.result_files = result_files
       /\ twin.media_files = media_files
       /\ NoTime(twin.stats) = NoTime(stats)
       /\ [twin.summary EXCEPT !.statistics = NoTime(@)]
            = [summary EXCEPT !.statistics = NoTime(@)]
       /\ StripSleeps(twin.log) = log

\* C18 witness: both runs have returned after two files of one request
\* each, answered in 0.3 s; the run with the delay paused once, the other
\* never
C18_Witness ==
  /\ twin # NoTwin /\ TwinCaughtUp /\ pc = "returned"
  /\ workflow = "pose" /\ Len(results) = 2
  /\ delay = 0 /\ latency = SlowServer
  /\ stats.processing_time = 2 * SlowServer
  /\ twin.stats.processing_time = 2 * SlowServer + DefaultDelay
  /\ Len(twin.log) = Len(log) + 1

\* the tally handed to the report functions
GivenTally == Get(Get(summary_data.d, "statistics", <<>>), "actions", <<>>)

\* the <<category, count>> items a text lists, in its order
ReportItems ==
  LET a == SelectSeq(report.lines, LAMBDA l : l.kind = "action")
  IN [n \in 1..Len(a) |-> <<a[n].name, a[n].value>>]
ChartItems ==
  [n \in 1..Len(chart.lines) |-> <<chart.lines[n].action, chart.lines[n].count>>]

\* items lists every item of tally once, by count descending, the items of
\* equal count in their order in tally
SortedStable(tally, items) ==
  /\ Len(items) = Len(tally)
  /\ \A m \in 1..Len(tally) : \E n \in 1..Len(items) : items[n] = tally[m]
  /\ \A n \in 1..(Len(items) - 1) :
       /\ items[n][2] >= items[n + 1][2]
       /\ items[n][2] = items[n + 1][2] =>
            \E p, q \in 1..Len(tally) :
              p < q /\ tally[p] = items[n] /\ tally[q] = items[n + 1]

\* C19: the breakdown of the report, and of the chart, lists every category
\* of the tally once, sorted by count descending, categories of equal count
\* in their insertion order in the tally; rendering the same summary again
\* gives the same text.
C19_BreakdownSortedStable ==
  /\ (report.returned /\ GivenTally # <<>>) => SortedStable(GivenTally, ReportItems)
  /\ chart.written => SortedStable(GivenTally, ChartItems)
  /\ report.returned => report.lines = generate_action_report(summary_data.d)

\* C19 witness: a tally whose first and last categories tie below the
\* second was rendered as report and chart
C19_Witness ==
  /\ report.returned /\ chart.written
  /\ GivenTally = << <<"sit", 1>>, <<"wave", 2>>, <<"jump", 1>> >>
  /\ ReportItems = << <<"wave", 2>>, <<"sit", 1>>, <<"jump", 1>> >>
  /\ ChartItems = ReportItems

\* the lines of the report of a given kind
ReportLines(kind) == SelectSeq(report.lines, LAMBDA l : l.kind = kind)

\* C20 as stated: a report rendered from empty statistics (zero files, zero
\* detections, empty tally) shows the totals header with zero totals and no
\* category lines.
C20_EmptyStatisticsShowZeroTotals ==
  (report.returned /\ summary_data = PyDict(<< <<"statistics", EmptyStatistics>> >>)) =>
    /\ ReportLines("Total files processed") = <<Line("Total files processed", "", 0)>>
    /\ ReportLines("Total poses detected") = <<Line("Total poses detected", "", 0)>>
    /\ ReportLines("action") = <<>>

\* C20 amended: rendering from statistics whose tally is empty (empty
\* statistics among them) returns the one line "No actions detected in the
\* processed files.": no totals header, no category line; and
\* create_action_chart writes no chart.
C20_EmptyTallyGivesMessage ==
  /\ (report.returned /\ HasKey(summary_data.d, "statistics") /\ GivenTally = <<>>) =>
       report.lines = NoActionsDetected
  /\ (chart.called /\ GivenTally = <<>>) => (~chart.written /\ chart.lines = <<>>)

\* C20 witness: empty statistics were rendered, as report and as chart
C20_Witness ==
  /\ summary_data = PyDict(<< <<"statistics", EmptyStatistics>> >>)
  /\ report.returned /\ chart.called
  /\ report.lines = NoActionsDetected


\* the tally handed to create_action_chart has categories, all of count 0
AllZeroTally ==
  /\ GivenTally # <<>>
  /\ \A n \in 1..Len(GivenTally) : GivenTally[n][2] = 0

\* C21 as stated: when the largest count of the tally is 0,
\* create_action_chart writes no action_summary.txt.
C21_ZeroMaxWritesNoChart ==
  (chart.called /\ AllZeroTally) => ~chart.written

\* C21 amended: when the largest count of the tally is 0, nothing is divided
\* by zero and action_summary.txt is written, with one line per category,
\* each of count 0 and with an empty bar; only an empty tally gives no chart.
C21_ZeroMaxWritesEmptyBars ==
  /\ (chart.called /\ AllZeroTally) =>
       /\ chart.written
       /\ Len(chart.lines) = Len(GivenTally)
       /\ \A n \in 1..Len(chart.lines) :
            chart.lines[n].count = 0 /\ chart.lines[n].bar = 0
  /\ chart.called => (chart.written <=> GivenTally # <<>>)

\* C21 witness: a chart was made from a tally of two categories of count 0
C21_Witness ==
  /\ chart.called /\ chart.written
  /\ GivenTally = << <<"wave", 0>>, <<"sit", 0>> >>
  /\ Len(chart.lines) = 2


\* the files for which the write of a per-file artifact failed: the target
\* could not be opened, or json.dump stopped in the middle
WriteFailures ==
  {log[n].file : n \in {m \in 1..Len(log) : log[m].ev \in {"write failed", "truncated"}}}

\* C22: in both workflows, a failure to write a per-file artifact (result
\* JSON or processed media) does not abort the run: no exception leaves the
\* workflow, and a run that is over has dispatched every discovered file and
\* has written the summary.
C22_WriteFailureDoesNotAbort ==
  WriteFailures # {} =>
    /\ pc # "raised"
    /\ pc = "returned" => (Dispatched = Discovered /\ SummaryWrites = 1)

\* C22 for process_directory alone: the failure is caught, recorded in
\* stats.errors, and the run goes on to the summary.
C22_PoseWriteFailureDoesNotAbort ==
  (workflow = "pose" /\ WriteFailures # {}) =>
    /\ pc # "raised"
    /\ \A f \in WriteFailures : \E n \in 1..Len(stats.errors) : stats.errors[n].file = f
    /\ pc = "returned" => (Dispatched = Discovered /\ SummaryWrites = 1)


\* the statistics read back from the summary
LoadedStatistics == Get(summary_data.d, "statistics", <<>>)

\* C23: the summary a run wrote, read back (by load_summary_file or by the
\* chart step), holds statistics with the total_files, the
\* total_poses_detected and the tally of the in-memory stats at the end of
\* the run: same keys, same counts, same key order.
C23_SummaryRoundTrip ==
  (summary.origin = "this run" /\ summary_data.t = "dict") =>
    /\ Get(LoadedStatistics, "total_files", -1) = stats.total_files
    /\ Get(LoadedStatistics, "total_poses_detected", -1) = stats.total_poses_detected
    /\ Get(LoadedStatistics, "actions", <<>>) = stats.actions
    /\ Len(Get(LoadedStatistics, "errors", <<>>)) = Len(stats.errors)

\* C23 witness: a run over two files ended with a tally of two categories
\* and one error; its summary was read back by both tools
C23_Witness ==
  /\ summary.origin = "this run" /\ summary_data.t = "dict"
  /\ chart.called /\ report.returned
  /\ stats.total_files = 2
  /\ \E f \in {"a.jpg"} : \E n \in 1..Len(results) : results[n][1] = f
  /\ Get(LoadedStatistics, "actions", <<>>) = << <<"sit", 1>>, <<"wave", 1>> >>
  /\ Len(stats.errors) = 1


\* the positions in the log of the events of a kind
Positions(ev) == {n \in 1..Len(log) : log[n].ev = ev}

\* p and q are the positions of two consecutive dispatches
Consecutive(p, q) ==
  /\ p \in Positions("dispatch") /\ q \in Positions("dispatch") /\ p < q
  /\ \A m \in Positions("dispatch") : ~(p < m /\ m < q)

SleepsBetween(p, q) == Cardinality({n \in Positions("sleep") : p < n /\ n < q})

\* C24: with delay > 0, exactly one sleep lies between every two consecutive
\* file dispatches of a run (the last image and the first video included),
\* none follows the last file, and a finished run over n files has slept
\* n - 1 times.
C24_OneDelayBetweenDispatches ==
  delay > 0 =>
    /\ \A p, q \in 1..Len(log) : Consecutive(p, q) => SleepsBetween(p, q) = 1
    /\ (pc \in {"summary", "returned"} /\ Discovered # <<>>) =>
         /\ Cardinality(Positions("sleep")) = Len(Discovered) - 1
         /\ \A n \in Positions("sleep") : \E m \in Positions("dispatch") : n < m

\* C24 within one loop: exactly one sleep between two consecutive files of
\* the same loop, none after the last file of a loop; between the last image
\* and the first video there is none.
C24_OneDelayWithinEachLoop ==
  delay > 0 =>
    /\ \A p, q \in 1..Len(log) :
         Consecutive(p, q) =>
           SleepsBetween(p, q) =
             (IF log[p].file = image_files[Len(image_files)] /\ video_files # <<>>
                 /\ log[q].file = video_files[1] /\ workflow = "pose"
                 /\ image_files # <<>>
              THEN 0 ELSE 1)
    /\ (pc \in {"summary", "returned"} /\ Discovered # <<>>) =>
         \A n \in Positions("sleep") : \E m \in Positions("dispatch") : n < m


\* the largest count of the tally handed to create_action_chart
LargestCount ==
  CHOOSE m \in 0..MaxCount :
    /\ \E n \in 1..Len(GivenTally) : GivenTally[n][2] = m
    /\ \A n \in 1..Len(GivenTally) : GivenTally[n][2] <= m

\* C25: in a chart made from a tally of largest count m > 0, the bar of a
\* category of count c has floor(40 * c / m) characters; a category of count
\* m has a bar of 40, no bar is longer than 40, and the bars do not grow
\* down the chart.
C25_BarIsFloorOfShare ==
  (chart.written /\ LargestCount > 0) =>
    /\ \A n \in 1..Len(chart.lines) :
         LET c == chart.lines[n].count
             bar == chart.lines[n].bar
         IN /\ bar * LargestCount <= 40 * c
            /\ 40 * c < (bar + 1) * LargestCount
            /\ bar >= 0 /\ bar <= 40
            /\ c = LargestCount => bar = 40
    /\ \E n \in 1..Len(chart.lines) : chart.lines[n].bar = 40
    /\ \A n \in 1..(Len(chart.lines) - 1) :
         chart.lines[n].bar >= chart.lines[n + 1].bar

\* C25 witness: a chart of counts 3, 2 and 1: bars of 40, 26 and 13
C25_Witness ==
  /\ chart.written
  /\ GivenTally = << <<"wave", 1>>, <<"sit", 3>>, <<"jump", 2>> >>
  /\ [n \in 1..3 |-> chart.lines[n].bar] = <<40, 26, 13>>


\* the first request of the call failed: no response, or an error status
FirstRequestFailed(c) ==
  Len(c.resps) >= 1 /\ c.resps[1].status \in {"conn", "err"}

\* C26: a detect call that found its file sends at most two requests,
\* exactly one when processed media is not requested, whatever the answers,
\* and no second one when the first failed.
C26_RequestsPerDetectCall ==
  (call.fn # "" /\ call.out.exc # "FileNotFoundError") =>
    /\ Len(call.out.reqs) \in {1, 2}
    /\ ~call.requested => Len(call.out.reqs) = 1
    /\ FirstRequestFailed(call) => Len(call.out.reqs) = 1


\* C27: the per-file result artifact written for a file of the run is still
\* that file's at every later point of the run: no other file of the run,
\* whatever its stem, has written over it.
C27_ArtifactsNotOverwritten ==
  \A n \in 1..Len(log) :
    log[n].ev = "artifact" =>
      /\ result_files[Stem(log[n].file)].writer = log[n].file
      /\ \A m \in (n + 1)..Len(log) :
           (log[m].ev \in {"artifact", "truncated"} /\ log[m].file # log[n].file) =>
             Stem(log[m].file) # Stem(log[n].file)


\* a process_directory run is over and has written its summary
PoseRunOver == workflow = "pose" /\ pc = "returned" /\ summary.origin = "this run"

\* every discovered file has an entry in results_by_file or in stats.errors
EveryFileAccountedFor ==
  \A n \in 1..Len(Discovered) :
    \/ HasKey(summary.index, Discovered[n])
    \/ \E e \in 1..Len(summary.statistics.errors) :
         summary.statistics.errors[e].file = Discovered[n]

\* the per-file artifact of every file of results_by_file was written
IndexedFilesWereWritten ==
  \A n \in 1..Len(summary.index) :
    \E m \in Positions("artifact") : log[m].file = summary.index[n][1]

\* C28: at the end of a process_directory run every discovered file has an
\* entry in results_by_file or in stats.errors, the artifact of every file
\* of results_by_file was written, and the entries of results_by_file and of
\* stats.errors together are at least total_files.
C28_EveryFileAccountedFor ==
  PoseRunOver =>
    /\ EveryFileAccountedFor
    /\ IndexedFilesWereWritten
    /\ Len(summary.index) + Len(summary.statistics.errors)
         >= summary.statistics.total_files

\* C28 without the count: the two per-file statements
C28_PerFileAccounting ==
  PoseRunOver => (EveryFileAccountedFor /\ IndexedFilesWereWritten)


\* C29: in the summary process_image_directory wrote, the processed_image
\* of an entry is not null only if the processed image of that file was
\* written during the run; it is null when processed images were not
\* requested.
C29_ProcessedImagePathIsReal ==
  (workflow = "gesture" /\ summary.origin = "this run") =>
    \A n \in 1..Len(summary.index) :
      LET file == summary.index[n][1]
          entry == summary.index[n][2]
      IN /\ entry.processed # "null" =>
              /\ entry.processed = file
              /\ media_files[file] \notin {"absent", ""}
              /\ \E m \in Positions("media") : log[m].file = file
         /\ ~return_media => entry.processed = "null"


\* C30: summarize_file_results over the per-file artifacts a
\* process_directory run wrote returns the totals of the run: total_poses
\* is total_poses_detected, the tally is stats.actions, total_files is
\* total_files and files_with_errors is the number of entries of
\* stats.errors.
C30_FilesAgreeWithRun ==
  (workflow = "pose" /\ custom_summary.done) =>
    /\ custom_summary.exc = ""
    /\ custom_summary.total_poses = stats.total_poses_detected
    /\ SameMapping(custom_summary.actions, stats.actions)
    /\ custom_summary.total_files = stats.total_files
    /\ custom_summary.files_with_errors = Len(stats.errors)

====
